---- MODULE Spec2Model ----
(***************************************************************************)
(* Lead-generation pipeline: the campaign / lead / pipeline-run store       *)
(* (leads/sqlite_manager.py) and the orchestrator that sequences the        *)
(* stages of one run (leads/pipeline_orchestrator.py).                      *)
(*                                                                         *)
(* Each run is a process whose position is pc[r]; every store call of the   *)
(* orchestrator is one transaction (one sqlite connection that commits on   *)
(* exit), so runs interleave between store calls.                           *)
(*                                                                         *)
(* Environment: a call inside a stage's try block may raise (the store is   *)
(* locked, the exporter cannot write); the orchestrator's own calls         *)
(* (status and total_leads updates, insert_leads, the except handler) are   *)
(* taken to succeed.                                                        *)
(*                                                                         *)
(* Beside the runs (Spec): one run with any arguments and a status poller   *)
(* (SpecRequest); one run whose place searches are followed request by      *)
(* request, under weak fairness (SpecLive); and one validate_leads_batch    *)
(* call with its coroutines, semaphore and summary (SpecValidator), from    *)
(* leads/lead_validator.py and google_places_scraper.py.                    *)
(***************************************************************************)
EXTENDS Integers, Sequences, FiniteSets, TLC

\* ------------------------------------------------------------------ bounds
NumRuns == 2
MaxBusinesses == 2
MaxClock == 1

Runs == 1..NumRuns

\* ------------------------------------------------------- program constants
NoCampaign == <<>>
NoError == "null"
NoSummary == [status |-> "none"]
NoPayload == "null"
AnyStatus == "any"

ErrNoBusinesses == "No businesses found"
ErrIntegrity == "UNIQUE constraint failed: campaigns.id"
ErrStore == "database is locked"
ErrExport == "export failed"

LeadStatuses == <<"new", "validated", "enriched", "researched", "personalized">>

\* position of a lead status in new < validated < enriched < researched < personalized
StatusRank(s) == CHOOSE i \in 1..Len(LeadStatuses) : LeadStatuses[i] = s

StageOrder == <<"scraping", "validation", "linkedin_enrichment", "research",
                "personalization", "export">>

StageIndex(s) == CHOOSE i \in 1..Len(StageOrder) : StageOrder[i] = s

Terminal == {"completed", "failed"}

VARIABLES
    cfg,            \* LeadPipelineConfig stage flags, read at construction
    clock,          \* the wall clock, in whole seconds
    campaigns,      \* table campaigns: id -> row
    leads,          \* table leads: row i has AUTOINCREMENT id i
    pipeline_runs,  \* table pipeline_runs: campaign_id -> its rows, in insertion order
    pc,             \* position of each run
    campaign_id,    \* run_complete_pipeline's local campaign_id
    businesses,     \* len(businesses) returned by the scrape
    stage_leads,    \* ids of the leads the running stage has read
    validated_leads,\* the validator's results for stage_leads
    final_stats,    \* run_complete_pipeline's local final_stats
    exc,            \* the exception being propagated, or NoError
    summary,        \* the dict returned by run_complete_pipeline
    stage_log,      \* history: the stage functions called, in order
    attempted,      \* history: the stages that went past their empty check
    failed_stage,   \* history: the stage whose body raised
    exported,       \* history: the lead ids handed to the exporter
    request,        \* the arguments of each run_complete_pipeline call
    status_view,    \* what the last get_pipeline_status call returned
    v_pc,           \* position of validate_leads_batch and of its caller
    batch,          \* validate_leads_batch's argument `leads`
    max_workers,    \* LeadValidator.max_workers
    permits,        \* the semaphore's counter
    task,           \* the _validate_single_lead_async coroutines, one per lead
    inline_call,    \* the task whose blocking call occupies the event loop, or 0
    completion,     \* history: the tasks in the order they finished
    out,            \* the list validate_leads_batch returns
    lead_updates,   \* the updates _validate_leads builds from it
    validation_summary,  \* the dict get_validation_summary returned
    search_pc,      \* position of _search_places
    places,         \* len(places) in _search_places
    next_page_token,\* whether _search_places holds a next_page_token
    response,       \* the answer to the text search request just made
    db_pc,          \* whether update_leads_batch's connection has its transaction open
    txn,            \* that transaction: what is left to do, and the rows as it sees them
    db_result,      \* how the last update_leads_batch ended
    db_call,        \* the store operation called last, and the campaign it was called for
    read_view,      \* what another connection's get_leads_by_campaign returned last
    active_tasks,   \* api_server.active_tasks: task id -> its entry
    job,            \* the generate requests accepted so far and their background tasks
    deleted         \* history: the task ids delete_task removed, with their status then

api == <<request, status_view>>
validator == <<v_pc, batch, max_workers, permits, task, inline_call, completion,
               out, lead_updates, validation_summary>>

search == <<search_pc, places, next_page_token, response>>

db == <<db_pc, txn, db_result, db_call, read_view>>

jobs == <<active_tasks, job, deleted>>

\* the store's connections and the job registry
other == <<db, jobs>>

\* what the orchestrator's run leaves alone
aux == <<api, validator, search, other>>

pipeline == <<cfg, clock, campaigns, leads, pipeline_runs, pc, campaign_id,
              businesses, stage_leads, validated_leads, final_stats, exc, summary,
              stage_log, attempted, failed_stage, exported>>

vars == <<pipeline, aux>>

store == <<campaigns, leads, pipeline_runs>>
history == <<stage_log, attempted, failed_stage, exported>>

\* ------------------------------------------------------------------ store

\* CREATE TABLE campaigns: the defaults of a freshly inserted row
NewCampaign ==
    [status |-> "pending", total_leads |-> 0, validated_leads |-> 0,
     enriched_leads |-> 0, personalized_leads |-> 0,
     completed_at |-> FALSE, error_message |-> NoError]

\* CREATE TABLE leads: the row insert_leads writes
NewLead(cid) ==
    [campaign_id |-> cid, status |-> "new", email_valid |-> FALSE,
     phone_valid |-> FALSE, company_valid |-> FALSE,
     linkedin_profile |-> NoPayload, research_data |-> NoPayload,
     personalized_message |-> NoPayload]

\* campaign_<YYYYMMDD_HHMMSS>: the id names the second at which it is made
CampaignIdAt(t) == <<"campaign", t>>

\* INSERT INTO campaigns: the arguments are stored as they come
create_campaign(cs, id, req) ==
    cs @@ (id :> (NewCampaign @@ [business_type |-> req.business_type,
                                  location |-> req.location]))

\* faulty variant: the row is replaced, so the columns the caller did not name
\* fall back to their defaults
update_campaign_replaces(cs, id, updates) ==
    [c \in DOMAIN cs |->
        IF c = id
        THEN [f \in DOMAIN cs[c] |->
                 IF f \in DOMAIN updates THEN updates[f]
                 ELSE IF f \in DOMAIN NewCampaign THEN NewCampaign[f]
                 ELSE cs[c][f]]
        ELSE cs[c]]

\* UPDATE campaigns SET <updates> WHERE id = ?
update_campaign(cs, id, updates) ==
    [c \in DOMAIN cs |->
        IF c = id
        THEN [f \in DOMAIN cs[c] |->
                 IF f \in DOMAIN updates THEN updates[f] ELSE cs[c][f]]
        ELSE cs[c]]

insert_leads(ls, cid, n) == ls \o [i \in 1..n |-> NewLead(cid)]

\* SELECT id FROM leads WHERE campaign_id = ? [AND status = ?] ORDER BY id
get_leads_by_campaign(ls, cid, status) ==
    SelectSeq([i \in 1..Len(ls) |-> i],
              LAMBDA i : /\ ls[i].campaign_id = cid
                         /\ (status = AnyStatus \/ ls[i].status = status))

\* faulty variant: UPDATE leads SET ... WHERE id = ?
ApplyUpdate_any_campaign(row, cid, id, update) ==
    IF update.id = id
    THEN [f \in DOMAIN row |->
             IF f \in DOMAIN update THEN update[f] ELSE row[f]]
    ELSE row

\* one row of the batch: UPDATE leads SET ... WHERE id = ? AND campaign_id = ?
ApplyUpdate(row, cid, id, update) ==
    IF update.id = id /\ row.campaign_id = cid
    THEN [f \in DOMAIN row |->
             IF f \in DOMAIN update THEN update[f] ELSE row[f]]
    ELSE row

RECURSIVE ApplyUpdates(_, _, _, _)
ApplyUpdates(row, cid, id, updates) ==
    IF updates = <<>> THEN row
    ELSE ApplyUpdates(ApplyUpdate(row, cid, id, Head(updates)), cid, id,
                      Tail(updates))

update_leads_batch(ls, cid, updates) ==
    [i \in 1..Len(ls) |-> ApplyUpdates(ls[i], cid, i, updates)]

\* INSERT INTO pipeline_runs: appended to the rows of the campaign
record_pipeline_run(prs, cid, stage, status, processed, success, error_message) ==
    LET row == [campaign_id |-> cid, stage |-> stage, status |-> status,
                processed_count |-> processed, success_count |-> success,
                error_message |-> error_message]
    IN  IF cid \in DOMAIN prs
        THEN [prs EXCEPT ![cid] = Append(@, row)]
        ELSE prs @@ (cid :> <<row>>)

\* number of the elements of a sequence that satisfy a test
CountSeq(s, Test(_)) == Len(SelectSeq(s, Test))

\* the 'leads' part of get_campaign_stats
get_campaign_stats(ls, cid) ==
    LET mine == SelectSeq(ls, LAMBDA l : l.campaign_id = cid) IN
    [total_leads |-> Len(mine),
     valid_emails |-> CountSeq(mine, LAMBDA l : l.email_valid),
     valid_phones |-> CountSeq(mine, LAMBDA l : l.phone_valid),
     enriched_leads |-> CountSeq(mine, LAMBDA l : l.linkedin_profile # NoPayload),
     researched_leads |-> CountSeq(mine, LAMBDA l : l.research_data # NoPayload),
     personalized_leads |-> CountSeq(mine, LAMBDA l : l.personalized_message # NoPayload)]

\* the rows of one campaign, in insertion order
RunsOf(cid) == IF cid \in DOMAIN pipeline_runs THEN pipeline_runs[cid] ELSE <<>>
LeadsOf(cid) == SelectSeq(leads, LAMBDA l : l.campaign_id = cid)

\* ----------------------------------------------------------- orchestrator

\* what the validator reports for one lead: nothing valid, only the company
\* (the name fallback), or everything valid
ValidationOutcomes ==
    {[email_valid |-> FALSE, phone_valid |-> FALSE, company_valid |-> FALSE],
     [email_valid |-> FALSE, phone_valid |-> FALSE, company_valid |-> TRUE],
     [email_valid |-> TRUE, phone_valid |-> TRUE, company_valid |-> TRUE]}

\* faulty variant: the export sits inside the personalization branch
AfterResearch_export_nested ==
    IF cfg.enable_personalization THEN "personalize" ELSE "final_stats"

\* the `if self.config.enable_*` chain of run_complete_pipeline
AfterResearch == IF cfg.enable_personalization THEN "personalize" ELSE "export"
AfterEnrich == IF cfg.enable_research THEN "research" ELSE AfterResearch
AfterValidate == IF cfg.enable_linkedin_enrichment THEN "enrich" ELSE AfterEnrich
AfterStore == IF cfg.enable_validation THEN "validate" ELSE AfterValidate

\* a stage function returns: its locals are gone
Locals(r) ==
    /\ stage_leads' = [stage_leads EXCEPT ![r] = <<>>]
    /\ validated_leads' = [validated_leads EXCEPT ![r] = <<>>]

\* the stage's except clause: record the failed run, re-raise
StageExcept(r, stage) ==
    /\ pipeline_runs' = record_pipeline_run(pipeline_runs, campaign_id[r], stage,
                                            "failed", 0, 0, ErrStore)
    /\ exc' = [exc EXCEPT ![r] = ErrStore]
    /\ failed_stage' = [failed_stage EXCEPT ![r] = stage]
    /\ pc' = [pc EXCEPT ![r] = "except"]
    /\ Locals(r)

\* _create_campaign: INSERT INTO campaigns, outside the try block.
\* Runs are interchangeable, so they are numbered in the order they start.
run_create_campaign(r) ==
    /\ pc[r] = "idle"
    /\ \A q \in Runs : q < r => pc[q] # "idle"
    /\ \E t \in clock..MaxClock :
        /\ clock' = t
        /\ IF CampaignIdAt(t) \in DOMAIN campaigns
           THEN /\ exc' = [exc EXCEPT ![r] = ErrIntegrity]
                /\ pc' = [pc EXCEPT ![r] = "raised"]
                /\ UNCHANGED <<campaigns, campaign_id>>
           ELSE /\ campaigns' = create_campaign(campaigns, CampaignIdAt(t), request[r])
                /\ campaign_id' = [campaign_id EXCEPT ![r] = CampaignIdAt(t)]
                /\ pc' = [pc EXCEPT ![r] = "set_running"]
                /\ UNCHANGED exc
    /\ UNCHANGED <<aux, cfg, leads, pipeline_runs, businesses, stage_leads,
                   validated_leads, final_stats, summary, history>>

\* faulty variant: the campaign is left pending when the stages start
run_set_running_forgotten(r) ==
    /\ pc[r] = "set_running"
    /\ pc' = [pc EXCEPT ![r] = "scrape"]
    /\ UNCHANGED <<aux, cfg, clock, campaigns, leads, pipeline_runs, campaign_id,
                   businesses, stage_leads, validated_leads, final_stats, exc,
                   summary, history>>

run_set_running(r) ==
    /\ pc[r] = "set_running"
    /\ campaigns' = update_campaign(campaigns, campaign_id[r], [status |-> "running"])
    /\ pc' = [pc EXCEPT ![r] = "scrape"]
    /\ UNCHANGED <<aux, cfg, clock, leads, pipeline_runs, campaign_id, businesses,
                   stage_leads, validated_leads, final_stats, exc, summary, history>>

\* search_businesses has come back
SearchDone == search_pc \in {"off", "returned"}

\* places[:max_results]; fewer when the search is one step
PlacesFound(r) ==
    IF search_pc = "off" THEN MaxBusinesses
    ELSE IF places < request[r].max_results THEN places
    ELSE request[r].max_results

\* faulty variant: an empty scrape result is not treated as a failure
scrape_businesses_unchecked(r) ==
    /\ pc[r] = "scrape"
    /\ SearchDone
    /\ \E n \in 0..PlacesFound(r) :
        /\ businesses' = [businesses EXCEPT ![r] = n]
        /\ pipeline_runs' = record_pipeline_run(pipeline_runs, campaign_id[r],
                                "scraping", "completed", n, n, NoError)
    /\ pc' = [pc EXCEPT ![r] = "insert_leads"]
    /\ stage_log' = [stage_log EXCEPT ![r] = Append(@, "scraping")]
    /\ attempted' = [attempted EXCEPT ![r] = Append(@, "scraping")]
    /\ UNCHANGED <<aux, cfg, clock, campaigns, leads, campaign_id, stage_leads,
                   validated_leads, final_stats, exc, summary, failed_stage,
                   exported>>

\* _scrape_businesses, then `if not businesses: raise`
scrape_businesses(r) ==
    /\ pc[r] = "scrape"
    /\ SearchDone
    /\ \E n \in 0..PlacesFound(r) :
        /\ businesses' = [businesses EXCEPT ![r] = n]
        /\ pipeline_runs' = record_pipeline_run(pipeline_runs, campaign_id[r],
                                "scraping", "completed", n, n, NoError)
        /\ IF n = 0
           THEN /\ exc' = [exc EXCEPT ![r] = ErrNoBusinesses]
                /\ pc' = [pc EXCEPT ![r] = "except"]
           ELSE /\ pc' = [pc EXCEPT ![r] = "insert_leads"]
                /\ UNCHANGED exc
    /\ stage_log' = [stage_log EXCEPT ![r] = Append(@, "scraping")]
    /\ attempted' = [attempted EXCEPT ![r] = Append(@, "scraping")]
    /\ UNCHANGED <<aux, cfg, clock, campaigns, leads, campaign_id, stage_leads,
                   validated_leads, final_stats, summary, failed_stage, exported>>

\* _scrape_businesses when recording the completed run raises
scrape_businesses_except(r) ==
    /\ pc[r] = "scrape"
    /\ SearchDone
    /\ stage_log' = [stage_log EXCEPT ![r] = Append(@, "scraping")]
    /\ attempted' = [attempted EXCEPT ![r] = Append(@, "scraping")]
    /\ StageExcept(r, "scraping")
    /\ UNCHANGED <<aux, cfg, clock, campaigns, leads, campaign_id, businesses,
                   final_stats, summary, exported>>

run_insert_leads(r) ==
    /\ pc[r] = "insert_leads"
    /\ leads' = insert_leads(leads, campaign_id[r], businesses[r])
    /\ pc' = [pc EXCEPT ![r] = "update_total"]
    /\ UNCHANGED <<aux, cfg, clock, campaigns, pipeline_runs, campaign_id, businesses,
                   stage_leads, validated_leads, final_stats, exc, summary, history>>

run_update_total(r) ==
    /\ pc[r] = "update_total"
    /\ campaigns' = update_campaign(campaigns, campaign_id[r],
                                    [total_leads |-> businesses[r]])
    /\ pc' = [pc EXCEPT ![r] = AfterStore]
    /\ UNCHANGED <<aux, cfg, clock, leads, pipeline_runs, campaign_id, businesses,
                   stage_leads, validated_leads, final_stats, exc, summary, history>>

\* _validate_leads: reads every lead of the campaign (no status filter)
validate_leads_read(r) ==
    /\ pc[r] = "validate"
    /\ stage_log' = [stage_log EXCEPT ![r] = Append(@, "validation")]
    /\ LET found == get_leads_by_campaign(leads, campaign_id[r], AnyStatus) IN
        IF found = <<>>
        THEN /\ pc' = [pc EXCEPT ![r] = AfterValidate]
             /\ UNCHANGED <<stage_leads, attempted>>
        ELSE /\ stage_leads' = [stage_leads EXCEPT ![r] = found]
             /\ attempted' = [attempted EXCEPT ![r] = Append(@, "validation")]
             /\ pc' = [pc EXCEPT ![r] = "validate_update"]
    /\ UNCHANGED <<aux, cfg, clock, campaigns, leads, pipeline_runs, campaign_id,
                   businesses, validated_leads, final_stats, exc, summary,
                   failed_stage, exported>>

\* the validator returns one result per lead; the batch is written
validate_leads_update(r) ==
    /\ pc[r] = "validate_update"
    /\ \E results \in [1..Len(stage_leads[r]) -> ValidationOutcomes] :
        /\ validated_leads' = [validated_leads EXCEPT ![r] = results]
        /\ leads' = update_leads_batch(leads, campaign_id[r],
                        [i \in 1..Len(results) |->
                            [id |-> stage_leads[r][i],
                             email_valid |-> results[i].email_valid,
                             phone_valid |-> results[i].phone_valid,
                             company_valid |-> results[i].company_valid,
                             status |-> "validated"]])
    /\ pc' = [pc EXCEPT ![r] = "validate_counter"]
    /\ UNCHANGED <<aux, cfg, clock, campaigns, pipeline_runs, campaign_id,
                   businesses, stage_leads, final_stats, exc, summary,
                   stage_log, attempted, failed_stage, exported>>

\* faulty variant: the stage returns without recording its run
validate_leads_counter_returns(r) ==
    /\ pc[r] = "validate_counter"
    /\ campaigns' = update_campaign(campaigns, campaign_id[r],
                        [validated_leads |->
                            CountSeq(validated_leads[r], LAMBDA v : v.email_valid)])
    /\ pc' = [pc EXCEPT ![r] = AfterValidate]
    /\ Locals(r)
    /\ UNCHANGED <<aux, cfg, clock, leads, pipeline_runs, campaign_id, businesses,
                   final_stats, exc, summary, history>>

validate_leads_counter(r) ==
    /\ pc[r] = "validate_counter"
    /\ campaigns' = update_campaign(campaigns, campaign_id[r],
                        [validated_leads |->
                            CountSeq(validated_leads[r], LAMBDA v : v.email_valid)])
    /\ pc' = [pc EXCEPT ![r] = "validate_record"]
    /\ UNCHANGED <<aux, cfg, clock, leads, pipeline_runs, campaign_id, businesses,
                   stage_leads, validated_leads, final_stats, exc, summary,
                   stage_log, attempted, failed_stage, exported>>

validate_leads_record(r) ==
    /\ pc[r] = "validate_record"
    /\ pipeline_runs' = record_pipeline_run(pipeline_runs, campaign_id[r],
                            "validation", "completed", Len(stage_leads[r]),
                            Len(validated_leads[r]), NoError)
    /\ pc' = [pc EXCEPT ![r] = AfterValidate]
    /\ Locals(r)
    /\ UNCHANGED <<aux, cfg, clock, campaigns, leads, campaign_id, businesses,
                   final_stats, exc, summary, stage_log, attempted,
                   failed_stage, exported>>

\* a call in _validate_leads's try block raises
validate_leads_except(r) ==
    /\ pc[r] \in {"validate_update", "validate_counter", "validate_record"}
    /\ StageExcept(r, "validation")
    /\ UNCHANGED <<aux, cfg, clock, campaigns, leads, campaign_id, businesses,
                   final_stats, summary, stage_log, attempted, exported>>

\* faulty variant: the stage asks for the leads it has already enriched
enrich_linkedin_profiles_read_enriched(r) ==
    /\ pc[r] = "enrich"
    /\ stage_log' = [stage_log EXCEPT ![r] = Append(@, "linkedin_enrichment")]
    /\ LET found == get_leads_by_campaign(leads, campaign_id[r], "enriched") IN
        IF found = <<>>
        THEN /\ pc' = [pc EXCEPT ![r] = AfterEnrich]
             /\ UNCHANGED <<stage_leads, attempted>>
        ELSE /\ stage_leads' = [stage_leads EXCEPT ![r] = found]
             /\ attempted' = [attempted EXCEPT ![r] = Append(@, "linkedin_enrichment")]
             /\ pc' = [pc EXCEPT ![r] = "enrich_update"]
    /\ UNCHANGED <<aux, cfg, clock, campaigns, leads, pipeline_runs, campaign_id,
                   businesses, validated_leads, final_stats, exc, summary,
                   failed_stage, exported>>

\* faulty variant: the stage reads the campaign's leads whatever their status
enrich_linkedin_profiles_read_unfiltered(r) ==
    /\ pc[r] = "enrich"
    /\ stage_log' = [stage_log EXCEPT ![r] = Append(@, "linkedin_enrichment")]
    /\ LET found == get_leads_by_campaign(leads, campaign_id[r], AnyStatus) IN
        IF found = <<>>
        THEN /\ pc' = [pc EXCEPT ![r] = AfterEnrich]
             /\ UNCHANGED <<stage_leads, attempted>>
        ELSE /\ stage_leads' = [stage_leads EXCEPT ![r] = found]
             /\ attempted' = [attempted EXCEPT ![r] = Append(@, "linkedin_enrichment")]
             /\ pc' = [pc EXCEPT ![r] = "enrich_update"]
    /\ UNCHANGED <<aux, cfg, clock, campaigns, leads, pipeline_runs, campaign_id,
                   businesses, validated_leads, final_stats, exc, summary,
                   failed_stage, exported>>

\* enrich_linkedin_profiles: reads the leads with status validated
enrich_linkedin_profiles_read(r) ==
    /\ pc[r] = "enrich"
    /\ stage_log' = [stage_log EXCEPT ![r] = Append(@, "linkedin_enrichment")]
    /\ LET found == get_leads_by_campaign(leads, campaign_id[r], "validated") IN
        IF found = <<>>
        THEN /\ pc' = [pc EXCEPT ![r] = AfterEnrich]
             /\ UNCHANGED <<stage_leads, attempted>>
        ELSE /\ stage_leads' = [stage_leads EXCEPT ![r] = found]
             /\ attempted' = [attempted EXCEPT ![r] = Append(@, "linkedin_enrichment")]
             /\ pc' = [pc EXCEPT ![r] = "enrich_update"]
    /\ UNCHANGED <<aux, cfg, clock, campaigns, leads, pipeline_runs, campaign_id,
                   businesses, validated_leads, final_stats, exc, summary,
                   failed_stage, exported>>

\* faulty variant: the profile is attached without the status that goes with it
enrich_linkedin_profiles_update_payload_only(r) ==
    /\ pc[r] = "enrich_update"
    /\ leads' = update_leads_batch(leads, campaign_id[r],
                    [i \in 1..Len(stage_leads[r]) |->
                        [id |-> stage_leads[r][i], linkedin_profile |-> "linkedin_profile"]])
    /\ pc' = [pc EXCEPT ![r] = "enrich_counter"]
    /\ UNCHANGED <<aux, cfg, clock, campaigns, pipeline_runs, campaign_id,
                   businesses, stage_leads, validated_leads, final_stats,
                   exc, summary, stage_log, attempted, failed_stage,
                   exported>>

enrich_linkedin_profiles_update(r) ==
    /\ pc[r] = "enrich_update"
    /\ leads' = update_leads_batch(leads, campaign_id[r],
                    [i \in 1..Len(stage_leads[r]) |->
                        [id |-> stage_leads[r][i], linkedin_profile |-> "linkedin_profile",
                         status |-> "enriched"]])
    /\ pc' = [pc EXCEPT ![r] = "enrich_counter"]
    /\ UNCHANGED <<aux, cfg, clock, campaigns, pipeline_runs, campaign_id,
                   businesses, stage_leads, validated_leads, final_stats,
                   exc, summary, stage_log, attempted, failed_stage,
                   exported>>

enrich_linkedin_profiles_counter(r) ==
    /\ pc[r] = "enrich_counter"
    /\ campaigns' = update_campaign(campaigns, campaign_id[r],
                        [enriched_leads |-> Len(stage_leads[r])])
    /\ pc' = [pc EXCEPT ![r] = "enrich_record"]
    /\ UNCHANGED <<aux, cfg, clock, leads, pipeline_runs, campaign_id, businesses,
                   stage_leads, validated_leads, final_stats, exc, summary,
                   stage_log, attempted, failed_stage, exported>>

enrich_linkedin_profiles_record(r) ==
    /\ pc[r] = "enrich_record"
    /\ pipeline_runs' = record_pipeline_run(pipeline_runs, campaign_id[r],
                            "linkedin_enrichment", "completed", Len(stage_leads[r]),
                            Len(stage_leads[r]), NoError)
    /\ pc' = [pc EXCEPT ![r] = AfterEnrich]
    /\ Locals(r)
    /\ UNCHANGED <<aux, cfg, clock, campaigns, leads, campaign_id, businesses,
                   final_stats, exc, summary, stage_log, attempted,
                   failed_stage, exported>>

\* a call in enrich_linkedin_profiles's try block raises
enrich_linkedin_profiles_except(r) ==
    /\ pc[r] \in {"enrich_update", "enrich_counter", "enrich_record"}
    /\ StageExcept(r, "linkedin_enrichment")
    /\ UNCHANGED <<aux, cfg, clock, campaigns, leads, campaign_id, businesses,
                   final_stats, summary, stage_log, attempted, exported>>

\* faulty variant: the stage records a run although it found nothing to do
research_companies_read_records_empty(r) ==
    /\ pc[r] = "research"
    /\ stage_log' = [stage_log EXCEPT ![r] = Append(@, "research")]
    /\ LET found == get_leads_by_campaign(leads, campaign_id[r], "enriched") IN
        IF found = <<>>
        THEN /\ pc' = [pc EXCEPT ![r] = AfterResearch]
             /\ pipeline_runs' = record_pipeline_run(pipeline_runs, campaign_id[r],
                                     "research", "completed", 0, 0, NoError)
             /\ UNCHANGED <<stage_leads, attempted>>
        ELSE /\ stage_leads' = [stage_leads EXCEPT ![r] = found]
             /\ attempted' = [attempted EXCEPT ![r] = Append(@, "research")]
             /\ pc' = [pc EXCEPT ![r] = "research_update"]
             /\ UNCHANGED pipeline_runs
    /\ UNCHANGED <<aux, cfg, clock, campaigns, leads, campaign_id,
                   businesses, validated_leads, final_stats, exc, summary,
                   failed_stage, exported>>

\* faulty variant: the stage takes the leads the validation left when the
\* enrichment has not run
research_companies_read_validated(r) ==
    /\ pc[r] = "research"
    /\ stage_log' = [stage_log EXCEPT ![r] = Append(@, "research")]
    /\ LET enriched == get_leads_by_campaign(leads, campaign_id[r], "enriched")
           found == IF enriched # <<>> THEN enriched
                    ELSE get_leads_by_campaign(leads, campaign_id[r], "validated")
       IN
        IF found = <<>>
        THEN /\ pc' = [pc EXCEPT ![r] = AfterResearch]
             /\ UNCHANGED <<stage_leads, attempted>>
        ELSE /\ stage_leads' = [stage_leads EXCEPT ![r] = found]
             /\ attempted' = [attempted EXCEPT ![r] = Append(@, "research")]
             /\ pc' = [pc EXCEPT ![r] = "research_update"]
    /\ UNCHANGED <<aux, cfg, clock, campaigns, leads, pipeline_runs, campaign_id,
                   businesses, validated_leads, final_stats, exc, summary,
                   failed_stage, exported>>

\* research_companies: reads the leads with status enriched
research_companies_read(r) ==
    /\ pc[r] = "research"
    /\ stage_log' = [stage_log EXCEPT ![r] = Append(@, "research")]
    /\ LET found == get_leads_by_campaign(leads, campaign_id[r], "enriched") IN
        IF found = <<>>
        THEN /\ pc' = [pc EXCEPT ![r] = AfterResearch]
             /\ UNCHANGED <<stage_leads, attempted>>
        ELSE /\ stage_leads' = [stage_leads EXCEPT ![r] = found]
             /\ attempted' = [attempted EXCEPT ![r] = Append(@, "research")]
             /\ pc' = [pc EXCEPT ![r] = "research_update"]
    /\ UNCHANGED <<aux, cfg, clock, campaigns, leads, pipeline_runs, campaign_id,
                   businesses, validated_leads, final_stats, exc, summary,
                   failed_stage, exported>>

research_companies_update(r) ==
    /\ pc[r] = "research_update"
    /\ leads' = update_leads_batch(leads, campaign_id[r],
                    [i \in 1..Len(stage_leads[r]) |->
                        [id |-> stage_leads[r][i], research_data |-> "research_data",
                         status |-> "researched"]])
    /\ pc' = [pc EXCEPT ![r] = "research_record"]
    /\ UNCHANGED <<aux, cfg, clock, campaigns, pipeline_runs, campaign_id,
                   businesses, stage_leads, validated_leads, final_stats,
                   exc, summary, stage_log, attempted, failed_stage,
                   exported>>

research_companies_record(r) ==
    /\ pc[r] = "research_record"
    /\ pipeline_runs' = record_pipeline_run(pipeline_runs, campaign_id[r],
                            "research", "completed", Len(stage_leads[r]),
                            Len(stage_leads[r]), NoError)
    /\ pc' = [pc EXCEPT ![r] = AfterResearch]
    /\ Locals(r)
    /\ UNCHANGED <<aux, cfg, clock, campaigns, leads, campaign_id, businesses,
                   final_stats, exc, summary, stage_log, attempted,
                   failed_stage, exported>>

\* faulty variant: the stage's handler marks the campaign failed, then records the run
research_companies_except_marks(r) ==
    \/ /\ pc[r] \in {"research_update", "research_record"}
       /\ campaigns' = update_campaign(campaigns, campaign_id[r],
                           [status |-> "failed", error_message |-> ErrStore])
       /\ pc' = [pc EXCEPT ![r] = "research_marked"]
       /\ UNCHANGED <<aux, cfg, clock, leads, pipeline_runs, campaign_id, businesses,
                      stage_leads, validated_leads, final_stats, exc, summary,
                      history>>
    \/ /\ pc[r] = "research_marked"
       /\ StageExcept(r, "research")
       /\ UNCHANGED <<aux, cfg, clock, campaigns, leads, campaign_id, businesses,
                      final_stats, summary, stage_log, attempted, exported>>

\* a call in research_companies's try block raises
research_companies_except(r) ==
    /\ pc[r] \in {"research_update", "research_record"}
    /\ StageExcept(r, "research")
    /\ UNCHANGED <<aux, cfg, clock, campaigns, leads, campaign_id, businesses,
                   final_stats, summary, stage_log, attempted, exported>>

\* personalize_messages: reads the leads with status researched
personalize_messages_read(r) ==
    /\ pc[r] = "personalize"
    /\ stage_log' = [stage_log EXCEPT ![r] = Append(@, "personalization")]
    /\ LET found == get_leads_by_campaign(leads, campaign_id[r], "researched") IN
        IF found = <<>>
        THEN /\ pc' = [pc EXCEPT ![r] = "export"]
             /\ UNCHANGED <<stage_leads, attempted>>
        ELSE /\ stage_leads' = [stage_leads EXCEPT ![r] = found]
             /\ attempted' = [attempted EXCEPT ![r] = Append(@, "personalization")]
             /\ pc' = [pc EXCEPT ![r] = "personalize_update"]
    /\ UNCHANGED <<aux, cfg, clock, campaigns, leads, pipeline_runs, campaign_id,
                   businesses, validated_leads, final_stats, exc, summary,
                   failed_stage, exported>>

\* faulty variant: the status of an earlier stage is written
personalize_messages_update_stale(r) ==
    /\ pc[r] = "personalize_update"
    /\ leads' = update_leads_batch(leads, campaign_id[r],
                    [i \in 1..Len(stage_leads[r]) |->
                        [id |-> stage_leads[r][i],
                         personalized_message |-> "personalized_message",
                         status |-> "enriched"]])
    /\ pc' = [pc EXCEPT ![r] = "personalize_counter"]
    /\ UNCHANGED <<aux, cfg, clock, campaigns, pipeline_runs, campaign_id, businesses,
                   stage_leads, validated_leads, final_stats, exc, summary,
                   history>>

personalize_messages_update(r) ==
    /\ pc[r] = "personalize_update"
    /\ leads' = update_leads_batch(leads, campaign_id[r],
                    [i \in 1..Len(stage_leads[r]) |->
                        [id |-> stage_leads[r][i], personalized_message |-> "personalized_message",
                         status |-> "personalized"]])
    /\ pc' = [pc EXCEPT ![r] = "personalize_counter"]
    /\ UNCHANGED <<aux, cfg, clock, campaigns, pipeline_runs, campaign_id,
                   businesses, stage_leads, validated_leads, final_stats,
                   exc, summary, stage_log, attempted, failed_stage,
                   exported>>

personalize_messages_counter(r) ==
    /\ pc[r] = "personalize_counter"
    /\ campaigns' = update_campaign(campaigns, campaign_id[r],
                        [personalized_leads |-> Len(stage_leads[r])])
    /\ pc' = [pc EXCEPT ![r] = "personalize_record"]
    /\ UNCHANGED <<aux, cfg, clock, leads, pipeline_runs, campaign_id, businesses,
                   stage_leads, validated_leads, final_stats, exc, summary,
                   stage_log, attempted, failed_stage, exported>>

personalize_messages_record(r) ==
    /\ pc[r] = "personalize_record"
    /\ pipeline_runs' = record_pipeline_run(pipeline_runs, campaign_id[r],
                            "personalization", "completed", Len(stage_leads[r]),
                            Len(stage_leads[r]), NoError)
    /\ pc' = [pc EXCEPT ![r] = "export"]
    /\ Locals(r)
    /\ UNCHANGED <<aux, cfg, clock, campaigns, leads, campaign_id, businesses,
                   final_stats, exc, summary, stage_log, attempted,
                   failed_stage, exported>>

\* a call in personalize_messages's try block raises
personalize_messages_except(r) ==
    /\ pc[r] \in {"personalize_update", "personalize_counter", "personalize_record"}
    /\ StageExcept(r, "personalization")
    /\ UNCHANGED <<aux, cfg, clock, campaigns, leads, campaign_id, businesses,
                   final_stats, summary, stage_log, attempted, exported>>

\* _export_results: every lead of the campaign goes to the exporter
export_results(r) ==
    /\ pc[r] = "export"
    /\ stage_log' = [stage_log EXCEPT ![r] = Append(@, "export")]
    /\ attempted' = [attempted EXCEPT ![r] = Append(@, "export")]
    /\ exported' = [exported EXCEPT ![r] =
                        get_leads_by_campaign(leads, campaign_id[r], AnyStatus)]
    /\ pc' = [pc EXCEPT ![r] = "final_stats"]
    /\ UNCHANGED <<aux, cfg, clock, campaigns, leads, pipeline_runs, campaign_id,
                   businesses, stage_leads, validated_leads, final_stats,
                   exc, summary, failed_stage>>

\* _export_results when export_leads raises: nothing catches it in the stage
export_results_raises(r) ==
    /\ pc[r] = "export"
    /\ get_leads_by_campaign(leads, campaign_id[r], AnyStatus) # <<>>
    /\ stage_log' = [stage_log EXCEPT ![r] = Append(@, "export")]
    /\ attempted' = [attempted EXCEPT ![r] = Append(@, "export")]
    /\ exported' = [exported EXCEPT ![r] =
                        get_leads_by_campaign(leads, campaign_id[r], AnyStatus)]
    /\ exc' = [exc EXCEPT ![r] = ErrExport]
    /\ failed_stage' = [failed_stage EXCEPT ![r] = "export"]
    /\ pc' = [pc EXCEPT ![r] = "except"]
    /\ UNCHANGED <<aux, cfg, clock, campaigns, leads, pipeline_runs, campaign_id,
                   businesses, stage_leads, validated_leads, final_stats,
                   summary>>

run_final_stats(r) ==
    /\ pc[r] = "final_stats"
    /\ final_stats' = [final_stats EXCEPT ![r] =
                           get_campaign_stats(leads, campaign_id[r])]
    /\ pc' = [pc EXCEPT ![r] = "complete"]
    /\ UNCHANGED <<aux, cfg, clock, campaigns, leads, pipeline_runs, campaign_id,
                   businesses, stage_leads, validated_leads, exc, summary,
                   stage_log, attempted, failed_stage, exported>>

\* the campaign is completed and the summary returned
run_complete(r) ==
    /\ pc[r] = "complete"
    /\ campaigns' = update_campaign(campaigns, campaign_id[r],
                        [status |-> "completed", completed_at |-> TRUE])
    /\ summary' = [summary EXCEPT ![r] =
                       [campaign_id |-> campaign_id[r], status |-> "completed",
                        total_leads |-> businesses[r],
                        validated_leads |-> final_stats[r].valid_emails,
                        enriched_leads |-> final_stats[r].enriched_leads]]
    /\ pc' = [pc EXCEPT ![r] = "returned"]
    /\ UNCHANGED <<aux, cfg, clock, leads, pipeline_runs, campaign_id, businesses,
                   stage_leads, validated_leads, final_stats, exc, stage_log,
                   attempted, failed_stage, exported>>

\* faulty variant: the handler swallows the error and reports success
run_except_swallows(r) ==
    /\ pc[r] = "except"
    /\ campaigns' = update_campaign(campaigns, campaign_id[r],
                        [status |-> "failed", error_message |-> exc[r]])
    /\ summary' = [summary EXCEPT ![r] =
                       [campaign_id |-> campaign_id[r], status |-> "failed",
                        total_leads |-> businesses[r], validated_leads |-> 0,
                        enriched_leads |-> 0]]
    /\ exc' = [exc EXCEPT ![r] = NoError]
    /\ pc' = [pc EXCEPT ![r] = "returned"]
    /\ UNCHANGED <<aux, cfg, clock, leads, pipeline_runs, campaign_id, businesses,
                   stage_leads, validated_leads, final_stats, history>>

\* faulty variant: the campaign is marked failed without the error's message
run_except_without_message(r) ==
    /\ pc[r] = "except"
    /\ campaigns' = update_campaign(campaigns, campaign_id[r], [status |-> "failed"])
    /\ pc' = [pc EXCEPT ![r] = "raised"]
    /\ UNCHANGED <<aux, cfg, clock, leads, pipeline_runs, campaign_id, businesses,
                   stage_leads, validated_leads, final_stats, exc, summary,
                   stage_log, attempted, failed_stage, exported>>

\* run_complete_pipeline's except clause: mark the campaign failed, re-raise
run_except(r) ==
    /\ pc[r] = "except"
    /\ campaigns' = update_campaign(campaigns, campaign_id[r],
                        [status |-> "failed", error_message |-> exc[r]])
    /\ pc' = [pc EXCEPT ![r] = "raised"]
    /\ UNCHANGED <<aux, cfg, clock, leads, pipeline_runs, campaign_id, businesses,
                   stage_leads, validated_leads, final_stats, exc, summary,
                   stage_log, attempted, failed_stage, exported>>

\* ------------------------------------------------- GooglePlacesScraper

MaxPage == 2

\* no request is awaiting its handling
NoResponse == [status |-> "none", results |-> 0, next_page_token |-> FALSE]

\* what a text search request can come back with: a page of at least one
\* result, with or without a token for the next page; no result; a refusal
\* (REQUEST_DENIED, OVER_QUERY_LIMIT, INVALID_REQUEST all take the same
\* branch); or an exception from requests (timeout, HTTP error)
Responses ==
    [status : {"OK"}, results : 1..MaxPage, next_page_token : BOOLEAN]
    \cup [status : {"ZERO_RESULTS", "REQUEST_DENIED", "RequestException"},
          results : {0}, next_page_token : {FALSE}]

\* _search_places: the loop test, then the request
search_places_request(r) ==
    /\ pc[r] = "scrape"
    /\ search_pc = "loop"
    /\ IF places < request[r].max_results
       THEN /\ \E resp \in Responses : response' = resp
            /\ search_pc' = "response"
       ELSE /\ search_pc' = "returned"
            /\ UNCHANGED response
    /\ UNCHANGED <<other, pipeline, api, validator, places, next_page_token>>

\* faulty variant: a refusal ends the search like any other failure
search_places_handle_gives_up(r) ==
    /\ pc[r] = "scrape"
    /\ search_pc = "response"
    /\ response' = NoResponse
    /\ IF response.status = "OK"
       THEN /\ places' = places + response.results
            /\ next_page_token' = response.next_page_token
            /\ search_pc' = IF response.next_page_token THEN "loop" ELSE "returned"
       ELSE /\ search_pc' = "returned"
            /\ UNCHANGED <<places, next_page_token>>
    /\ UNCHANGED <<other, pipeline, api, validator>>

\* _search_places: the rest of the loop body
search_places_handle(r) ==
    /\ pc[r] = "scrape"
    /\ search_pc = "response"
    /\ response' = NoResponse
    /\ IF response.status = "OK"
       THEN /\ places' = places + response.results
            /\ next_page_token' = response.next_page_token
            /\ search_pc' = IF response.next_page_token THEN "loop" ELSE "returned"
       ELSE /\ search_pc' = IF response.status \in {"ZERO_RESULTS", "RequestException"}
                            THEN "returned"
                            ELSE "loop"
            /\ UNCHANGED <<places, next_page_token>>
    /\ UNCHANGED <<other, pipeline, api, validator>>

\* ------------------------------------------------------ get_pipeline_status

CampaignIds == {CampaignIdAt(t) : t \in 0..MaxClock}

NotFound == [error |-> "Campaign not found"]

\* the dict built from the campaign row and get_campaign_stats
StatusOf(id) ==
    [campaign_id |-> id,
     status |-> campaigns[id].status,
     completed_at |-> campaigns[id].completed_at,
     total_leads |-> campaigns[id].total_leads,
     validated_leads |-> campaigns[id].validated_leads,
     enriched_leads |-> campaigns[id].enriched_leads,
     personalized_leads |-> campaigns[id].personalized_leads,
     error_message |-> campaigns[id].error_message,
     detailed_stats |-> get_campaign_stats(leads, id)]

\* faulty variant: the row is used without the `if not campaign` test
get_pipeline_status_unguarded(id) ==
    /\ status_view' = [asked |-> id,
                       reply |-> IF id \in DOMAIN campaigns
                                 THEN StatusOf(id)
                                 ELSE [raised |-> "AttributeError"]]
    /\ UNCHANGED <<other, pipeline, request, validator, search>>

\* get_pipeline_status: two SELECTs, no write
get_pipeline_status(id) ==
    /\ status_view' = [asked |-> id,
                       reply |-> IF id \in DOMAIN campaigns
                                 THEN StatusOf(id)
                                 ELSE NotFound]
    /\ UNCHANGED <<other, pipeline, request, validator, search>>

\* ---------------------------------------------------------- specification

NoStats == [total_leads |-> 0, valid_emails |-> 0, valid_phones |-> 0,
            enriched_leads |-> 0, researched_leads |-> 0, personalized_leads |-> 0]

\* a request as the command line and the API hand it over
ValidRequest ==
    [business_type |-> "restaurants", location |-> "Seattle, WA",
     max_results |-> MaxBusinesses]

NoView == [asked |-> NoCampaign, reply |-> [view |-> "none"]]

\* the dict {}
EmptyDict == [key \in {} |-> 0]

\* no status has been asked for
ApiIdle ==
    /\ request = [r \in Runs |-> ValidRequest]
    /\ status_view = NoView

\* the validator is not looked at
ValidatorIdle ==
    /\ v_pc = "off"
    /\ batch = <<>>
    /\ max_workers = 1
    /\ permits = 0
    /\ task = <<>>
    /\ inline_call = 0
    /\ completion = <<>>
    /\ out = <<>>
    /\ lead_updates = <<>>
    /\ validation_summary = EmptyDict

\* the scraper's requests are not looked at: a search is one step
SearchIdle ==
    /\ search_pc = "off"
    /\ places = 0
    /\ next_page_token = FALSE
    /\ response = NoResponse

NoTxn == [cid |-> NoCampaign, todo |-> <<>>, image |-> <<>>, before |-> <<>>,
          updates |-> <<>>]
NoCall == [op |-> "none", cid |-> NoCampaign]
NoRead == [cid |-> NoCampaign, rows |-> <<>>, in_txn |-> FALSE]

\* the store is written by the runs only, each write in one step
DbIdle ==
    /\ db_pc = "off"
    /\ txn = NoTxn
    /\ db_result = "none"
    /\ db_call = NoCall
    /\ read_view = NoRead

\* no API server: the runs are called directly
JobsIdle ==
    /\ active_tasks = EmptyDict
    /\ job = <<>>
    /\ deleted = {}

OtherIdle == DbIdle /\ JobsIdle

\* nothing but the orchestrator's runs is looked at
AuxIdle == ApiIdle /\ ValidatorIdle /\ SearchIdle /\ OtherIdle

\* an orchestrator on an empty database; no run has started
InitPipeline ==
    /\ cfg \in [enable_validation : BOOLEAN, enable_linkedin_enrichment : BOOLEAN,
                enable_research : BOOLEAN, enable_personalization : BOOLEAN]
    /\ clock = 0
    /\ campaigns = [c \in {} |-> NewCampaign]
    /\ leads = <<>>
    /\ pipeline_runs = [c \in {} |-> <<>>]
    /\ campaign_id = [r \in Runs |-> NoCampaign]
    /\ businesses = [r \in Runs |-> 0]
    /\ stage_leads = [r \in Runs |-> <<>>]
    /\ validated_leads = [r \in Runs |-> <<>>]
    /\ final_stats = [r \in Runs |-> NoStats]
    /\ exc = [r \in Runs |-> NoError]
    /\ summary = [r \in Runs |-> NoSummary]
    /\ stage_log = [r \in Runs |-> <<>>]
    /\ attempted = [r \in Runs |-> <<>>]
    /\ failed_stage = [r \in Runs |-> "none"]
    /\ exported = [r \in Runs |-> <<>>]

Init ==
    /\ AuxIdle
    /\ pc = [r \in Runs |-> "idle"]
    /\ InitPipeline

Next ==
    \E r \in Runs :
        \/ run_create_campaign(r)
        \/ run_set_running(r)
        \/ scrape_businesses(r)
        \/ scrape_businesses_except(r)
        \/ run_insert_leads(r)
        \/ run_update_total(r)
        \/ validate_leads_read(r)
        \/ validate_leads_update(r)
        \/ validate_leads_counter(r)
        \/ validate_leads_record(r)
        \/ validate_leads_except(r)
        \/ enrich_linkedin_profiles_read(r)
        \/ enrich_linkedin_profiles_update(r)
        \/ enrich_linkedin_profiles_counter(r)
        \/ enrich_linkedin_profiles_record(r)
        \/ enrich_linkedin_profiles_except(r)
        \/ research_companies_read(r)
        \/ research_companies_update(r)
        \/ research_companies_record(r)
        \/ research_companies_except(r)
        \/ personalize_messages_read(r)
        \/ personalize_messages_update(r)
        \/ personalize_messages_counter(r)
        \/ personalize_messages_record(r)
        \/ personalize_messages_except(r)
        \/ export_results(r)
        \/ export_results_raises(r)
        \/ run_final_stats(r)
        \/ run_complete(r)
        \/ run_except(r)

Spec == Init /\ [][Next]_vars

\* ---- one run called with any arguments, while a client polls its status

Requests ==
    [business_type : {"", "restaurants"}, location : {"", "Seattle, WA"},
     max_results : {MaxBusinesses}]

InitRequest ==
    /\ request \in {[r \in Runs |-> IF r = 1 THEN q ELSE ValidRequest] : q \in Requests}
    /\ status_view = NoView
    /\ ValidatorIdle
    /\ SearchIdle
    /\ OtherIdle
    /\ pc = [r \in Runs |-> IF r = 1 THEN "idle" ELSE "absent"]
    /\ InitPipeline

NextRequest ==
    \/ Next
    \/ \E id \in CampaignIds : get_pipeline_status(id)

SpecRequest == InitRequest /\ [][NextRequest]_vars

\* ---- one run, its searches request by request; every step that can be
\* ---- taken is taken in the end (each call returns, the program goes on)

InitLive ==
    /\ ApiIdle
    /\ ValidatorIdle
    /\ OtherIdle
    /\ search_pc = "loop"
    /\ places = 0
    /\ next_page_token = FALSE
    /\ response = NoResponse
    /\ pc = [r \in Runs |-> IF r = 1 THEN "idle" ELSE "absent"]
    /\ InitPipeline

NextLive ==
    \/ Next
    \/ \E r \in Runs :
        \/ search_places_request(r)
        \/ search_places_handle(r)

SpecLive == InitLive /\ [][NextLive]_vars /\ WF_vars(NextLive)

\* ---------------------------------------------------------- LeadValidator

MaxBatch == 3
MaxWorkers == 2

\* a website value that is not a string: `website.startswith` raises on it
NotAStr == "<int>"
ErrAttribute == "'int' object has no attribute 'startswith'"

\* a name is the tuple of its characters
Acme == <<"A", "c", "m", "e">>
Gone == <<"G", "o", "n", "e">>
Padded == <<" ", "a", "b", " ">>
Blank == <<" ", " ", " ">>

\* the leads a batch is made of: nothing to check; everything checks out;
\* a malformed address and a dead site behind a usable name; a website field
\* of the wrong type; no site and a two-letter name between spaces; a site that
\* answers 399 and no name; a site that answers 400 behind a name of spaces,
\* and behind a usable name; no site and a usable name
LeadKinds ==
    {[email |-> "", phone |-> "", website |-> "", name |-> <<>>],
     [email |-> "info@acme.com", phone |-> "+1 206 555 0100",
      website |-> "acme.com", name |-> Acme],
     [email |-> "not-an-email", phone |-> "", website |-> "gone.example",
      name |-> Gone],
     [email |-> "info@acme.com", phone |-> "", website |-> NotAStr,
      name |-> Acme],
     [email |-> "info@acme.com", phone |-> "", website |-> "", name |-> Padded],
     [email |-> "", phone |-> "", website |-> "edge.example", name |-> <<>>],
     [email |-> "", phone |-> "", website |-> "missing.example", name |-> Blank],
     [email |-> "", phone |-> "", website |-> "missing.example", name |-> Gone],
     [email |-> "", phone |-> "+1 206 555 0100", website |-> "", name |-> Acme]}

Batches ==
    UNION {{[i \in 1..n |-> [id |-> i] @@ kinds[i]] : kinds \in [1..n -> LeadKinds]} :
           n \in 0..MaxBatch}

\* `if not email` and the regular expression of _validate_email
email_pattern_match(email) == email = "info@acme.com"

\* _validate_phone: phonenumbers parses the number and finds it valid
validate_phone(phone) == phone = "+1 206 555 0100"

\* what self.session.get does with the sites the leads name: a response with
\* its status code, or requests.exceptions.ConnectionError
session_get(website) ==
    CASE website = "acme.com" -> [status_code |-> 200]
      [] website = "edge.example" -> [status_code |-> 399]
      [] website = "missing.example" -> [status_code |-> 400]
      [] OTHER -> [raised |-> "ConnectionError"]

\* _check_website_async, is_valid: the GET answers with a status in 200..399
check_website(website) ==
    LET answer == session_get(website)
    IN  /\ "status_code" \in DOMAIN answer
        /\ 200 <= answer.status_code
        /\ answer.status_code < 400

\* _check_website_async, details: the status code of the answer, or the error
\* the except clause notes
check_website_details(website) ==
    LET answer == session_get(website)
    IN  IF "status_code" \in DOMAIN answer
        THEN [status_code |-> answer.status_code]
        ELSE [error |-> "Connection failed"]

\* str.strip(): the whitespace at both ends is dropped
Whitespace == {" ", "\t", "\n"}

RECURSIVE lstrip(_)
lstrip(s) == IF s # <<>> /\ Head(s) \in Whitespace THEN lstrip(Tail(s)) ELSE s

RECURSIVE rstrip(_)
rstrip(s) ==
    IF s # <<>> /\ s[Len(s)] \in Whitespace
    THEN rstrip(SubSeq(s, 1, Len(s) - 1))
    ELSE s

strip(s) == rstrip(lstrip(s))

\* faulty variant: the name is measured with the spaces around it
validate_company_unstripped(website, company_name, website_valid) ==
    IF website = "" /\ company_name = <<>> THEN FALSE
    ELSE IF website # "" /\ website_valid THEN TRUE
    ELSE company_name # <<>> /\ Len(company_name) > 2

\* _validate_company_async, given what the website check said
validate_company(website, company_name, website_valid) ==
    IF website = "" /\ company_name = <<>> THEN FALSE
    ELSE IF website # "" /\ website_valid THEN TRUE
    ELSE company_name # <<>> /\ Len(strip(company_name)) > 2

\* the details _validate_company_async returns with its verdict; None and {}
\* are both the empty dict here, neither is stored
validate_company_details(website, company_name, website_valid) ==
    LET details == IF website # "" THEN check_website_details(website) ELSE EmptyDict
    IN  IF website = "" /\ company_name = <<>> THEN EmptyDict
        ELSE IF website # "" /\ website_valid THEN details
        ELSE IF company_name # <<>> /\ Len(strip(company_name)) > 2
        THEN [has_company_name |-> TRUE,
              company_name_length |-> Len(strip(company_name))] @@ details
        ELSE details

\* sum([email_valid, phone_valid, company_valid])
validation_score(l) ==
    (IF l.email_valid THEN 1 ELSE 0) + (IF l.phone_valid THEN 1 ELSE 0)
    + (IF l.company_valid THEN 1 ELSE 0)

\* dict.get with a default
Get(d, key, default) == IF key \in DOMAIN d THEN d[key] ELSE default

NewTask(lead) ==
    [st |-> "created", events |-> <<>>, validated_lead |-> lead, error |-> NoError,
     lookups |-> 0]

Tasks == 1..Len(batch)

\* validate_leads_batch up to the gather: the semaphore and one coroutine per lead
validate_leads_batch ==
    /\ v_pc = "called"
    /\ IF batch = <<>>
       THEN /\ v_pc' = "returned"
            /\ out' = <<>>
            /\ UNCHANGED <<permits, task>>
       ELSE /\ v_pc' = "gather"
            /\ permits' = max_workers
            /\ task' = [i \in Tasks |-> NewTask(batch[i])]
            /\ UNCHANGED out
    /\ UNCHANGED <<other, pipeline, api, search, validation_summary, batch, max_workers, inline_call, completion, lead_updates>>

\* faulty variant: every coroutine is let in, whatever the counter says
semaphore_acquire_unbounded(i) ==
    /\ i \in Tasks
    /\ v_pc = "gather" /\ inline_call = 0
    /\ task[i].st = "created"
    /\ permits' = permits - 1
    /\ task' = [task EXCEPT ![i].st = "sleeping", ![i].events = Append(@, "admitted")]
    /\ UNCHANGED <<other, pipeline, api, search, validation_summary, v_pc, batch, max_workers, inline_call, completion,
                   out, lead_updates>>

\* `async with semaphore`: entered while the counter is positive; the
\* coroutine then suspends in asyncio.sleep(0.1)
semaphore_acquire(i) ==
    /\ i \in Tasks
    /\ v_pc = "gather" /\ inline_call = 0
    /\ task[i].st = "created"
    /\ permits > 0
    /\ permits' = permits - 1
    /\ task' = [task EXCEPT ![i].st = "sleeping", ![i].events = Append(@, "admitted")]
    /\ UNCHANGED <<other, pipeline, api, search, validation_summary, v_pc, batch, max_workers, inline_call, completion,
                   out, lead_updates>>

\* the coroutine returns its validated_lead; the semaphore is released
Return(i, t, company_valid, company_details) ==
    LET l == [company_valid |-> company_valid, is_validated |-> TRUE]
             @@ (IF company_details # EmptyDict
                 THEN [company_validation_details |-> company_details]
                 ELSE EmptyDict)
             @@ t.validated_lead
    IN  /\ task' = [task EXCEPT ![i] =
                       [t EXCEPT !.st = "done",
                                 !.validated_lead =
                                     [validation_score |-> validation_score(l)] @@ l]]
        /\ permits' = permits + 1
        /\ completion' = Append(completion, i)

\* faulty variant: the exception leaves the coroutine with the permit held
Raise_keeps_permit(i, t, error) ==
    /\ task' = [task EXCEPT ![i] = [t EXCEPT !.st = "raised", !.error = error]]
    /\ permits' = permits
    /\ completion' = Append(completion, i)

\* an exception leaves the coroutine; the semaphore is released
Raise(i, t, error) ==
    /\ task' = [task EXCEPT ![i] = [t EXCEPT !.st = "raised", !.error = error]]
    /\ permits' = permits + 1
    /\ completion' = Append(completion, i)

\* _validate_single_lead_async once the email check has answered: the phone
\* check, then _validate_company_async up to its await
AfterEmail(i, t, email_valid) ==
    LET lead == batch[i]
        u == [t EXCEPT !.validated_lead =
                           [email_valid |-> email_valid,
                            phone_valid |-> validate_phone(lead.phone)] @@ @,
                       !.events = @ \o <<"phone", "company">>]
    IN  IF lead.website = ""
        THEN Return(i, u, validate_company(lead.website, lead.name, FALSE),
                    validate_company_details(lead.website, lead.name, FALSE))
        ELSE IF lead.website = NotAStr
        THEN Raise(i, u, ErrAttribute)
        ELSE /\ task' = [task EXCEPT ![i] = [u EXCEPT !.st = "fetching"]]
             /\ UNCHANGED <<permits, completion>>

\* faulty variant: the domain is looked up before the address is matched
\* against the pattern
pacing_delay_over_lookup_first(i) ==
    /\ i \in Tasks
    /\ v_pc = "gather" /\ inline_call = 0
    /\ task[i].st = "sleeping"
    /\ LET t == [task[i] EXCEPT !.events = @ \o <<"delay", "email">>] IN
        IF batch[i].email # ""
        THEN /\ task' = [task EXCEPT ![i] = [t EXCEPT !.st = "dns", !.lookups = @ + 1]]
             /\ inline_call' = i
             /\ UNCHANGED <<permits, completion>>
        ELSE /\ AfterEmail(i, t, FALSE)
             /\ UNCHANGED inline_call
    /\ UNCHANGED <<other, pipeline, api, search, validation_summary, v_pc, batch, max_workers, out, lead_updates>>

\* the sleep is over: lead.copy(), then _validate_email, whose library and
\* gethostbyname calls run in the coroutine itself
pacing_delay_over(i) ==
    /\ i \in Tasks
    /\ v_pc = "gather" /\ inline_call = 0
    /\ task[i].st = "sleeping"
    /\ LET t == [task[i] EXCEPT !.events = @ \o <<"delay", "email">>] IN
        IF batch[i].email # "" /\ email_pattern_match(batch[i].email)
        THEN /\ task' = [task EXCEPT ![i] = [t EXCEPT !.st = "dns", !.lookups = @ + 1]]
             /\ inline_call' = i
             /\ UNCHANGED <<permits, completion>>
        ELSE /\ AfterEmail(i, t, FALSE)
             /\ UNCHANGED inline_call
    /\ UNCHANGED <<other, pipeline, api, search, validation_summary, v_pc, batch, max_workers, out, lead_updates>>

\* validate_email and _check_domain_exists return: the address is valid
\* whatever the lookup said
check_domain_exists_returns(i) ==
    /\ i \in Tasks
    /\ v_pc = "gather"
    /\ task[i].st = "dns" /\ inline_call = i
    /\ inline_call' = 0
    /\ AfterEmail(i, task[i], TRUE)
    /\ UNCHANGED <<other, pipeline, api, search, validation_summary, v_pc, batch, max_workers, out, lead_updates>>

\* the GET handed to run_in_executor is done; the coroutine resumes
check_website_returns(i) ==
    /\ i \in Tasks
    /\ v_pc = "gather" /\ inline_call = 0
    /\ task[i].st = "fetching"
    /\ Return(i, task[i],
              validate_company(batch[i].website, batch[i].name,
                               check_website(batch[i].website)),
              validate_company_details(batch[i].website, batch[i].name,
                                       check_website(batch[i].website)))
    /\ UNCHANGED <<other, pipeline, api, search, validation_summary, v_pc, batch, max_workers, inline_call, out, lead_updates>>

\* the record built for a coroutine that raised
FailedLead(lead, error) ==
    [email_valid |-> FALSE, phone_valid |-> FALSE, company_valid |-> FALSE,
     validation_error |-> error] @@ lead

AllFinished == \A i \in Tasks : task[i].st \in {"done", "raised"}

\* faulty variant: the results are taken in the order the coroutines finish
gather_returns_as_completed ==
    /\ v_pc = "gather" /\ inline_call = 0
    /\ AllFinished
    /\ out' = [k \in 1..Len(completion) |->
                  LET i == completion[k] IN
                  IF task[i].st = "raised"
                  THEN FailedLead(batch[i], task[i].error)
                  ELSE task[i].validated_lead]
    /\ v_pc' = "returned"
    /\ UNCHANGED <<other, pipeline, api, search, validation_summary, batch, max_workers, permits, task, inline_call,
                   completion, lead_updates>>

\* faulty variant: gather without return_exceptions lets the exception through
gather_returns_propagates ==
    /\ v_pc = "gather" /\ inline_call = 0
    /\ AllFinished
    /\ IF \E i \in Tasks : task[i].st = "raised"
       THEN /\ v_pc' = "raised"
            /\ UNCHANGED out
       ELSE /\ v_pc' = "returned"
            /\ out' = [i \in Tasks |-> task[i].validated_lead]
    /\ UNCHANGED <<other, pipeline, api, search, validation_summary, batch, max_workers, permits, task, inline_call,
                   completion, lead_updates>>

\* asyncio.gather(*tasks, return_exceptions=True) and the loop over its list
gather_returns ==
    /\ v_pc = "gather" /\ inline_call = 0
    /\ AllFinished
    /\ out' = [i \in Tasks |->
                  IF task[i].st = "raised"
                  THEN FailedLead(batch[i], task[i].error)
                  ELSE task[i].validated_lead]
    /\ v_pc' = "returned"
    /\ UNCHANGED <<other, pipeline, api, search, validation_summary, batch, max_workers, permits, task, inline_call,
                   completion, lead_updates>>

\* _validate_leads: the updates built from the list that came back
validate_leads_updates ==
    /\ v_pc = "returned"
    /\ IF \A i \in 1..Len(out) : "id" \in DOMAIN out[i]
       THEN /\ lead_updates' = [i \in 1..Len(out) |->
                              [id |-> out[i].id,
                               email_valid |-> Get(out[i], "email_valid", FALSE),
                               phone_valid |-> Get(out[i], "phone_valid", FALSE),
                               company_valid |-> Get(out[i], "company_valid", FALSE),
                               status |-> "validated"]]
            /\ v_pc' = "updated"
       ELSE /\ v_pc' = "raised"
            /\ UNCHANGED lead_updates
    /\ UNCHANGED <<other, pipeline, api, search, validation_summary, batch, max_workers, permits, task, inline_call,
                   completion, out>>

\* round(num / den, 0) as Python rounds: to the nearest integer, a tie to the even one
RoundHalfEven(num, den) ==
    LET q == num \div den
        r == num % den
    IN  IF 2 * r < den THEN q
        ELSE IF 2 * r > den THEN q + 1
        ELSE IF q % 2 = 0 THEN q ELSE q + 1

RECURSIVE SumScores(_)
\* sum(lead.get('validation_score', 0) for lead in validated_leads)
SumScores(results) ==
    IF results = <<>> THEN 0
    ELSE Get(Head(results), "validation_score", 0)
         + SumScores(Tail(results))

\* get_validation_summary; overall_quality_score is kept in hundredths of a
\* point, the precision round(quality_score, 2) leaves
validation_summary_of(results) ==
    IF results = <<>> THEN EmptyDict
    ELSE LET total == Len(results)
             max_possible == total * 3
         IN  [total_leads |-> total,
              valid_emails |-> CountSeq(results,
                                        LAMBDA l : Get(l, "email_valid", FALSE)),
              valid_phones |-> CountSeq(results,
                                        LAMBDA l : Get(l, "phone_valid", FALSE)),
              valid_companies |-> CountSeq(results,
                                           LAMBDA l : Get(l, "company_valid", FALSE)),
              overall_quality_score |->
                  RoundHalfEven(SumScores(results) * 100 * 100, max_possible)]

\* a caller of validate_leads_batch asks for the summary of what came back
get_validation_summary ==
    /\ v_pc = "returned"
    /\ validation_summary' = validation_summary_of(out)
    /\ v_pc' = "summarized"
    /\ UNCHANGED <<other, pipeline, api, search, batch, max_workers, permits, task, inline_call,
                   completion, out, lead_updates>>

\* the range LeadPipelineConfig.validate reports validation_workers against
MinValidationWorkers == 1
MaxValidationWorkers == 20

\* the validation_workers a LeadPipelineConfig can hold when an orchestrator is
\* built from it: validate() only lists its errors, and __init__ logs them
WorkerLimits == 0..MaxWorkers \cup {MaxValidationWorkers + 1}

InitValidator ==
    /\ ApiIdle
    /\ SearchIdle
    /\ OtherIdle
    /\ pc = [r \in Runs |-> "absent"]
    /\ InitPipeline
    /\ \A stage \in DOMAIN cfg : cfg[stage]
    /\ v_pc = "called"
    /\ batch \in Batches
    /\ max_workers \in WorkerLimits
    /\ permits = 0
    /\ task = <<>>
    /\ inline_call = 0
    /\ completion = <<>>
    /\ out = <<>>
    /\ lead_updates = <<>>
    /\ validation_summary = EmptyDict

NextValidator ==
    \/ validate_leads_batch
    \/ \E i \in 1..MaxBatch :
        \/ semaphore_acquire(i)
        \/ pacing_delay_over(i)
        \/ check_domain_exists_returns(i)
        \/ check_website_returns(i)
    \/ gather_returns
    \/ validate_leads_updates
    \/ get_validation_summary

SpecValidator == InitValidator /\ [][NextValidator]_vars

\* the event loop resumes every coroutine that is ready, the sleep ends, each
\* individual check comes back, and the caller goes on with the list
SpecValidatorLive ==
    /\ InitValidator
    /\ [][NextValidator]_vars
    /\ WF_vars(validate_leads_batch)
    /\ \A i \in 1..MaxBatch :
        /\ WF_vars(semaphore_acquire(i))
        /\ WF_vars(pacing_delay_over(i))
        /\ WF_vars(check_domain_exists_returns(i))
        /\ WF_vars(check_website_returns(i))
    /\ WF_vars(gather_returns)
    /\ WF_vars(validate_leads_updates \/ get_validation_summary)

\* ---- the store on its own: any sequence of its operations, with
\* ---- update_leads_batch statement by statement and a second connection reading

MaxLeads == 2
MaxUpdates == 2

\* the ids create_campaign can give within the seconds looked at
StoreCampaignIds == {CampaignIdAt(t) : t \in 0..MaxClock}

\* the update lists a caller can hand to update_leads_batch: any lead ids,
\* those of another campaign's leads included
UpdateLists ==
    UNION {[1..n -> [id : 1..MaxLeads, status : {"validated"}, email_valid : {TRUE}]] :
           n \in 1..MaxUpdates}

\* a row DELETE FROM leads removed: its AUTOINCREMENT id is not given again
DeletedLead == [NewLead(NoCampaign) EXCEPT !.status = "deleted"]

\* SELECT * FROM leads WHERE campaign_id = ? ORDER BY id
LeadRows(ls, cid) ==
    LET ids == get_leads_by_campaign(ls, cid, AnyStatus)
    IN  [k \in 1..Len(ids) |-> ls[ids[k]]]

\* SELECT id FROM campaigns WHERE created_at < datetime('now', '-N days')
OldCampaigns(cs, cutoff) == {c \in DOMAIN cs : c[2] < cutoff}

WriteLocals ==
    UNCHANGED <<cfg, pc, campaign_id, businesses, stage_leads, validated_leads,
                final_stats, exc, summary, history, api, validator, search, jobs>>

\* create_campaign: INSERT INTO campaigns; the PRIMARY KEY refuses an id in use
store_create_campaign ==
    /\ db_pc = "idle"
    /\ \E t \in clock..MaxClock :
        /\ clock' = t
        /\ CampaignIdAt(t) \notin DOMAIN campaigns
        /\ campaigns' = create_campaign(campaigns, CampaignIdAt(t), ValidRequest)
        /\ db_call' = [op |-> "create_campaign", cid |-> CampaignIdAt(t)]
    /\ db_result' = "none"
    /\ read_view' = NoRead
    /\ txn' = NoTxn
    /\ UNCHANGED <<leads, pipeline_runs, db_pc>>
    /\ WriteLocals

\* variant: the connection enforces the FOREIGN KEY of leads.campaign_id
store_insert_leads_foreign_keys_on(cid, n) ==
    /\ db_pc = "idle"
    /\ Len(leads) + n <= MaxLeads
    /\ cid \in DOMAIN campaigns
    /\ leads' = insert_leads(leads, cid, n)
    /\ db_call' = [op |-> "insert_leads", cid |-> cid]
    /\ db_result' = "none"
    /\ read_view' = NoRead
    /\ txn' = NoTxn
    /\ UNCHANGED <<clock, campaigns, pipeline_runs, db_pc>>
    /\ WriteLocals

\* insert_leads: a connection of its own, on which PRAGMA foreign_keys was
\* never set, so the campaign_id is stored as it comes
store_insert_leads(cid, n) ==
    /\ db_pc = "idle"
    /\ Len(leads) + n <= MaxLeads
    /\ leads' = insert_leads(leads, cid, n)
    /\ db_call' = [op |-> "insert_leads", cid |-> cid]
    /\ db_result' = "none"
    /\ read_view' = NoRead
    /\ txn' = NoTxn
    /\ UNCHANGED <<clock, campaigns, pipeline_runs, db_pc>>
    /\ WriteLocals

\* record_pipeline_run: INSERT INTO pipeline_runs
store_record_pipeline_run(cid) ==
    /\ db_pc = "idle"
    /\ Len(RunsOf(cid)) < 1
    /\ pipeline_runs' = record_pipeline_run(pipeline_runs, cid, "scraping",
                                            "completed", 0, 0, NoError)
    /\ db_call' = [op |-> "record_pipeline_run", cid |-> cid]
    /\ db_result' = "none"
    /\ read_view' = NoRead
    /\ txn' = NoTxn
    /\ UNCHANGED <<clock, campaigns, leads, db_pc>>
    /\ WriteLocals

\* update_campaign: UPDATE campaigns SET ... WHERE id = ?
store_update_campaign(cid) ==
    /\ db_pc = "idle"
    /\ campaigns' = update_campaign(campaigns, cid, [status |-> "completed"])
    /\ db_call' = [op |-> "update_campaign", cid |-> cid]
    /\ db_result' = "none"
    /\ read_view' = NoRead
    /\ txn' = NoTxn
    /\ UNCHANGED <<clock, leads, pipeline_runs, db_pc>>
    /\ WriteLocals

\* cleanup_old_campaigns: the runs, the leads, then the campaigns created
\* before the cutoff, in one transaction
store_cleanup_old_campaigns ==
    /\ db_pc = "idle"
    /\ \E now \in clock..MaxClock : \E cutoff \in 0..now :
        LET old == OldCampaigns(campaigns, cutoff) IN
        /\ clock' = now
        /\ pipeline_runs' = [c \in DOMAIN pipeline_runs \ old |-> pipeline_runs[c]]
        /\ leads' = [i \in 1..Len(leads) |->
                        IF leads[i].campaign_id \in old THEN DeletedLead ELSE leads[i]]
        /\ campaigns' = [c \in DOMAIN campaigns \ old |-> campaigns[c]]
    /\ db_call' = [op |-> "cleanup_old_campaigns", cid |-> NoCampaign]
    /\ db_result' = "none"
    /\ read_view' = NoRead
    /\ txn' = NoTxn
    /\ UNCHANGED db_pc
    /\ WriteLocals

\* update_leads_batch: `with sqlite3.connect(...) as conn`
store_update_begin(cid, updates) ==
    /\ db_pc = "idle"
    /\ leads # <<>>
    /\ db_pc' = "in_txn"
    /\ txn' = [cid |-> cid, todo |-> updates, image |-> leads, before |-> leads,
               updates |-> updates]
    /\ db_call' = [op |-> "update_leads_batch", cid |-> cid]
    /\ db_result' = "none"
    /\ read_view' = NoRead
    /\ UNCHANGED <<clock, store>>
    /\ WriteLocals

\* faulty variant: the connection is in autocommit mode, each UPDATE is
\* written through as it is executed
store_update_row_autocommit ==
    /\ db_pc = "in_txn"
    /\ txn.todo # <<>>
    /\ LET written == [i \in 1..Len(txn.image) |->
                          ApplyUpdate(txn.image[i], txn.cid, i, Head(txn.todo))]
       IN  /\ txn' = [txn EXCEPT !.todo = Tail(@), !.image = written]
           /\ leads' = written
    /\ UNCHANGED <<clock, campaigns, pipeline_runs, db_pc, db_result, db_call, read_view>>
    /\ WriteLocals

\* one conn.execute("UPDATE leads SET ... WHERE id = ? AND campaign_id = ?")
\* inside the transaction the first UPDATE opened
store_update_row ==
    /\ db_pc = "in_txn"
    /\ txn.todo # <<>>
    /\ txn' = [txn EXCEPT !.todo = Tail(@),
                          !.image = [i \in 1..Len(@) |->
                                        ApplyUpdate(@[i], txn.cid, i, Head(txn.todo))]]
    /\ UNCHANGED <<clock, store, db_pc, db_result, db_call, read_view>>
    /\ WriteLocals

\* a statement or the commit raises: the `with` block rolls the transaction back
store_update_raises ==
    /\ db_pc = "in_txn"
    /\ db_pc' = "idle"
    /\ db_result' = "rolled_back"
    /\ txn' = [txn EXCEPT !.todo = <<>>, !.image = <<>>]
    /\ UNCHANGED <<clock, store, db_call, read_view>>
    /\ WriteLocals

\* conn.commit(): the rows the transaction wrote replace the ones it found
store_update_commit ==
    /\ db_pc = "in_txn"
    /\ txn.todo = <<>>
    /\ leads' = txn.image
    /\ db_pc' = "idle"
    /\ db_result' = "committed"
    /\ txn' = [txn EXCEPT !.image = <<>>]
    /\ UNCHANGED <<clock, campaigns, pipeline_runs, db_call, read_view>>
    /\ WriteLocals

\* get_leads_by_campaign on a connection of its own: the committed rows
store_get_leads_by_campaign(cid) ==
    /\ db_pc \in {"idle", "in_txn"}
    /\ db_call.op = "update_leads_batch"
    /\ read_view' = [cid |-> cid, rows |-> LeadRows(leads, cid),
                     in_txn |-> db_pc = "in_txn"]
    /\ UNCHANGED <<clock, store, db_pc, txn, db_result, db_call>>
    /\ WriteLocals

InitStore ==
    /\ ApiIdle
    /\ ValidatorIdle
    /\ SearchIdle
    /\ JobsIdle
    /\ pc = [r \in Runs |-> "absent"]
    /\ InitPipeline
    /\ \A stage \in DOMAIN cfg : cfg[stage]
    /\ db_pc = "idle"
    /\ txn = NoTxn
    /\ db_result = "none"
    /\ db_call = NoCall
    /\ read_view = NoRead

NextStore ==
    \/ store_create_campaign
    \/ \E cid \in StoreCampaignIds :
        \/ \E n \in 1..MaxBusinesses : store_insert_leads(cid, n)
        \/ store_record_pipeline_run(cid)
        \/ store_update_campaign(cid)
        \/ \E updates \in UpdateLists : store_update_begin(cid, updates)
        \/ store_get_leads_by_campaign(cid)
    \/ store_cleanup_old_campaigns
    \/ store_update_row
    \/ store_update_raises
    \/ store_update_commit

SpecStore == InitStore /\ [][NextStore]_vars

\* ---- the API server's job registry: generate_leads, delete_task and the
\* ---- background tasks, each one awaiting a run of the orchestrator
\* ---- (the configuration has no errors and enables no optional stage)

MaxRequests == 3

Jobs == 1..MaxRequests

\* f"task_{int(time.time())}_{len(active_tasks)}"
TaskIdAt(t, n) == <<"task", t, n>>

\* the entry generate_leads stores; `by` is history: the request that wrote it
NewTaskEntry(j) ==
    [status |-> "pending", results |-> NoSummary, error_message |-> NoError,
     by |-> j]

\* d[key] = value
dict_set(d, key, value) ==
    [k \in DOMAIN d \cup {key} |-> IF k = key THEN value ELSE d[k]]

\* del d[key]
dict_del(d, key) == [k \in DOMAIN d \ {key} |-> d[k]]

\* d[key].update(changes), for a key the dict has
dict_update(d, key, changes) ==
    [d EXCEPT ![key] = [f \in DOMAIN @ |->
                           IF f \in DOMAIN changes THEN changes[f] ELSE @[f]]]

\* the run slots no run_complete_pipeline call has taken
FreeRuns == {r \in Runs : pc[r] = "absent"}

JobLocals ==
    UNCHANGED <<cfg, campaigns, leads, pipeline_runs, campaign_id, businesses,
                stage_leads, validated_leads, final_stats, exc, summary, history,
                api, validator, search, db>>

\* POST /api/leads/generate: the id is built from the second and the size of
\* the registry; the entry is assigned, the background task is queued
generate_leads ==
    /\ Len(job) < MaxRequests
    /\ \E t \in clock..MaxClock :
        LET task_id == TaskIdAt(t, Cardinality(DOMAIN active_tasks)) IN
        /\ clock' = t
        /\ active_tasks' = dict_set(active_tasks, task_id, NewTaskEntry(Len(job) + 1))
        /\ job' = Append(job, [task_id |-> task_id, at |-> "queued", run |-> 0])
    /\ UNCHANGED <<pc, deleted>>
    /\ JobLocals

\* DELETE /api/leads/tasks/{task_id}; an unknown id is answered 404
delete_task(task_id) ==
    /\ task_id \in DOMAIN active_tasks
    /\ active_tasks' = dict_del(active_tasks, task_id)
    /\ deleted' = deleted \cup {[task_id |-> task_id,
                               status |-> active_tasks[task_id].status]}
    /\ UNCHANGED <<clock, pc, job>>
    /\ JobLocals

\* run_pipeline_task up to its await: the entry is set running and the
\* orchestrator called. Without the entry the update raises KeyError, the
\* handler's update raises it again and the task ends there.
run_pipeline_task_start(j) ==
    /\ j \in 1..Len(job)
    /\ job[j].at = "queued"
    /\ IF job[j].task_id \in DOMAIN active_tasks
       THEN /\ FreeRuns # {}
            /\ LET r == CHOOSE q \in FreeRuns : \A p \in FreeRuns : q <= p IN
                /\ pc' = [pc EXCEPT ![r] = "idle"]
                /\ job' = [job EXCEPT ![j].at = "awaiting", ![j].run = r]
            /\ active_tasks' = dict_update(active_tasks, job[j].task_id,
                                           [status |-> "running"])
       ELSE /\ job' = [job EXCEPT ![j].at = "key_error"]
            /\ UNCHANGED <<pc, active_tasks>>
    /\ UNCHANGED <<clock, deleted>>
    /\ JobLocals

\* run_pipeline_task after the await: the results or the error are written to
\* the entry the id names now; without the entry KeyError leaves the task
run_pipeline_task_finish(j) ==
    /\ j \in 1..Len(job)
    /\ job[j].at = "awaiting"
    /\ pc[job[j].run] \in {"returned", "raised"}
    /\ IF job[j].task_id \in DOMAIN active_tasks
       THEN /\ active_tasks' = dict_update(active_tasks, job[j].task_id,
                   IF pc[job[j].run] = "returned"
                   THEN [status |-> "completed", results |-> summary[job[j].run]]
                   ELSE [status |-> "failed", error_message |-> exc[job[j].run]])
            /\ job' = [job EXCEPT ![j].at = "done"]
       ELSE /\ job' = [job EXCEPT ![j].at = "key_error"]
            /\ UNCHANGED active_tasks
    /\ UNCHANGED <<clock, pc, deleted>>
    /\ JobLocals

\* the steps of a run whose configuration enables no optional stage
RunStep(r) ==
    \/ run_create_campaign(r)
    \/ run_set_running(r)
    \/ scrape_businesses(r)
    \/ scrape_businesses_except(r)
    \/ run_insert_leads(r)
    \/ run_update_total(r)
    \/ export_results(r)
    \/ export_results_raises(r)
    \/ run_final_stats(r)
    \/ run_complete(r)
    \/ run_except(r)

InitJobs ==
    /\ ApiIdle
    /\ ValidatorIdle
    /\ SearchIdle
    /\ OtherIdle
    /\ pc = [r \in Runs |-> "absent"]
    /\ InitPipeline
    /\ \A stage \in DOMAIN cfg : ~cfg[stage]

NextJobs ==
    \/ generate_leads
    \/ \E t \in 0..MaxClock : \E n \in 0..MaxRequests : delete_task(TaskIdAt(t, n))
    \/ \E j \in Jobs :
        \/ run_pipeline_task_start(j)
        \/ run_pipeline_task_finish(j)
    \/ \E r \in Runs : RunStep(r)

SpecJobs == InitJobs /\ [][NextJobs]_vars

\* ------------------------------------------------------------- properties

Started(r) == campaign_id[r] # NoCampaign
Campaign(r) == campaigns[campaign_id[r]]
Ended(r) == pc[r] \in {"returned", "raised"}
Calls(r, stage) == CountSeq(stage_log[r], LAMBDA s : s = stage)
StageEnabled(stage) ==
    CASE stage = "validation" -> cfg.enable_validation
      [] stage = "linkedin_enrichment" -> cfg.enable_linkedin_enrichment
      [] stage = "research" -> cfg.enable_research
      [] stage = "personalization" -> cfg.enable_personalization
      [] OTHER -> TRUE

\* C1: a campaign is created pending, is running before any stage of its run
\* executes, and its status only ever steps pending -> running,
\* running -> completed or running -> failed.
C1_StatusStep ==
    /\ \A c \in DOMAIN campaigns' :
          IF c \in DOMAIN campaigns
          THEN \/ campaigns'[c].status = campaigns[c].status
               \/ <<campaigns[c].status, campaigns'[c].status>> \in
                     {<<"pending", "running">>, <<"running", "completed">>,
                      <<"running", "failed">>}
          ELSE campaigns'[c].status = "pending"
    /\ \A r \in Runs :
          stage_log'[r] # <<>> => campaigns'[campaign_id'[r]].status # "pending"

C2_FailedOrSummary ==
    \A r \in Runs :
        /\ (Started(r) /\ exc[r] # NoError) =>
              /\ pc[r] \in {"except", "raised"}
              /\ Campaign(r).status # "completed"
              /\ summary[r] = NoSummary
        /\ (Started(r) /\ exc[r] # NoError /\ pc[r] = "raised") =>
              /\ Campaign(r).status = "failed"
              /\ Campaign(r).error_message = exc[r]
        /\ summary[r] # NoSummary =>
              /\ pc[r] = "returned"
              /\ summary[r].status = "completed"
              /\ Campaign(r).status = "completed"
              /\ exc[r] = NoError /\ failed_stage[r] = "none"
              /\ \A i \in 1..Len(StageOrder) :
                    StageEnabled(StageOrder[i]) => Calls(r, StageOrder[i]) = 1
              /\ \A i \in 1..Len(RunsOf(campaign_id[r])) :
                    RunsOf(campaign_id[r])[i].status = "completed"

C2_Witness ==
    \E r, q \in Runs :
        /\ pc[r] = "raised" /\ failed_stage[r] = "linkedin_enrichment"
        /\ Campaign(r).error_message = ErrStore
        /\ summary[q] # NoSummary

\* C3: the stages of a run are called in the order scraping, validation,
\* linkedin_enrichment, research, personalization, export, the disabled ones
\* left out, and when a stage is called every stage called before it has
\* finished its store writes: lead updates, campaign counter, PipelineRun row.
HasCompletedRun(r, stage) ==
    \E i \in 1..Len(RunsOf(campaign_id[r])) :
        /\ RunsOf(campaign_id[r])[i].stage = stage
        /\ RunsOf(campaign_id[r])[i].status = "completed"

NoLeadIn(r, status) == get_leads_by_campaign(leads, campaign_id[r], status) = <<>>

Finished(r, stage) ==
    CASE stage = "scraping" ->
            /\ HasCompletedRun(r, stage)
            /\ Len(LeadsOf(campaign_id[r])) = businesses[r]
            /\ Campaign(r).total_leads = businesses[r]
      [] stage = "validation" ->
            /\ HasCompletedRun(r, stage)
            /\ NoLeadIn(r, "new")
            /\ Campaign(r).validated_leads =
                  get_campaign_stats(leads, campaign_id[r]).valid_emails
      [] stage = "linkedin_enrichment" ->
            CountSeq(attempted[r], LAMBDA s : s = stage) = 1 =>
                /\ HasCompletedRun(r, stage)
                /\ NoLeadIn(r, "validated")
                /\ Campaign(r).enriched_leads = businesses[r]
      [] stage = "research" ->
            CountSeq(attempted[r], LAMBDA s : s = stage) = 1 =>
                /\ HasCompletedRun(r, stage)
                /\ NoLeadIn(r, "enriched")
      [] stage = "personalization" ->
            CountSeq(attempted[r], LAMBDA s : s = stage) = 1 =>
                /\ HasCompletedRun(r, stage)
                /\ NoLeadIn(r, "researched")
                /\ Campaign(r).personalized_leads = businesses[r]
      [] OTHER -> TRUE

C3_StagesInOrder ==
    \A r \in Runs :
        /\ \A i, j \in 1..Len(stage_log[r]) :
              i < j => StageIndex(stage_log[r][i]) < StageIndex(stage_log[r][j])
        /\ \A i \in 1..Len(stage_log[r]) :
              /\ StageEnabled(stage_log[r][i])
              /\ \A k \in 1..(StageIndex(stage_log[r][i]) - 1) :
                    StageEnabled(StageOrder[k]) => Calls(r, StageOrder[k]) = 1
              /\ i < Len(stage_log[r]) => Finished(r, stage_log[r][i])

C3_Witness ==
    \E r \in Runs :
        /\ stage_log[r] = StageOrder
        /\ pc[r] = "final_stats"

\* C4 (P1): no store write moves a lead's status backwards in the order
\* new < validated < enriched < researched < personalized.
C4_StatusStep ==
    \A i \in 1..Len(leads) :
        StatusRank(leads'[i].status) >= StatusRank(leads[i].status)

C4_LeadStatusMonotonic == [][C4_StatusStep]_vars

C4_Witness ==
    \E r \in Runs :
        /\ Started(r)
        /\ Len(LeadsOf(campaign_id[r])) >= 2
        /\ \A i \in 1..Len(LeadsOf(campaign_id[r])) :
              LeadsOf(campaign_id[r])[i].status = "personalized"

\* C5 (P4): once a campaign is completed or failed, no lead row and no
\* PipelineRun row of that campaign is written any more.
C5_TerminalStep ==
    \A c \in DOMAIN campaigns :
        campaigns[c].status \in Terminal =>
            /\ LeadsOf(c)' = LeadsOf(c)
            /\ RunsOf(c)' = RunsOf(c)

C5_NoWriteAfterTerminal == [][C5_TerminalStep]_vars

C5_Witness ==
    \E r, q \in Runs :
        /\ pc[r] = "raised" /\ Started(r)
        /\ Campaign(r).status = "failed"
        /\ Len(LeadsOf(campaign_id[r])) >= 2
        /\ failed_stage[r] = "research"
        /\ pc[q] = "personalize_update"

\* C6: every call of run() creates one campaign row of its own, also when two
\* runs start within the same second, and from the insertion of the scraped
\* businesses to the end of the run the campaign has exactly that many leads.
C6_OneCampaignPerRun ==
    \A r \in Runs :
        /\ pc[r] # "idle" =>
              /\ Started(r)
              /\ campaign_id[r] \in DOMAIN campaigns
              /\ \A q \in Runs \ {r} : campaign_id[q] # campaign_id[r]
        /\ (Started(r) /\ pc[r] \notin {"set_running", "scrape", "insert_leads",
                                        "except", "raised"}) =>
              Len(LeadsOf(campaign_id[r])) = businesses[r]

\* C7: when a run has ended, its campaign has as many PipelineRun rows as
\* stages were attempted, the failing stage and the export included.
C7_OneRowPerAttempt ==
    \A r \in Runs :
        (Ended(r) /\ Started(r)) =>
            Len(RunsOf(campaign_id[r])) = Len(attempted[r])

\* C8: when a stage has raised, a failed PipelineRun row naming that stage and
\* carrying the error's message is there before the campaign is marked failed.
C8_FailedRunRecorded ==
    \A r \in Runs :
        (Started(r) /\ failed_stage[r] # "none") =>
            \E i \in 1..Len(RunsOf(campaign_id[r])) :
                /\ RunsOf(campaign_id[r])[i].stage = failed_stage[r]
                /\ RunsOf(campaign_id[r])[i].status = "failed"
                /\ RunsOf(campaign_id[r])[i].error_message = exc[r]

\* C9: a run whose scrape found a business and in which no earlier stage
\* raised calls the export exactly once, whatever the four stage flags, with
\* every lead of the campaign; a raising export leaves the campaign failed,
\* never completed, and the error goes to the caller.
C9_ExportAlwaysRuns ==
    \A r \in Runs :
        /\ Calls(r, "export") <= 1
        /\ (Ended(r) /\ businesses[r] >= 1 /\ failed_stage[r] \in {"none", "export"}) =>
              Calls(r, "export") = 1
        /\ Calls(r, "export") = 1 =>
              /\ exported[r] = get_leads_by_campaign(leads, campaign_id[r], AnyStatus)
              /\ Len(exported[r]) = businesses[r]
        /\ failed_stage[r] = "export" =>
              /\ exc[r] = ErrExport
              /\ summary[r] = NoSummary
              /\ Campaign(r).status # "completed"
              /\ pc[r] \in {"except", "raised"}
              /\ pc[r] = "raised" => Campaign(r).status = "failed"

C9_Witness ==
    \E r, q \in Runs :
        /\ pc[r] = "raised" /\ failed_stage[r] = "export"
        /\ Len(exported[r]) >= 2
        /\ \E i, j \in 1..Len(exported[r]) :
              leads[exported[r][i]].email_valid # leads[exported[r][j]].email_valid
        /\ pc[q] = "returned" /\ Len(exported[q]) >= 1

\* C10: a scrape that returns nothing makes the run raise "No businesses
\* found": the campaign ends failed with that message, has no lead, and no
\* stage after the scrape is called.
C10_EmptyScrapeFails ==
    \A r \in Runs :
        /\ (stage_log[r] # <<>> /\ businesses[r] = 0 /\ failed_stage[r] = "none") =>
              /\ exc[r] = ErrNoBusinesses
              /\ pc[r] \in {"except", "raised"}
        /\ exc[r] = ErrNoBusinesses =>
              /\ businesses[r] = 0
              /\ stage_log[r] = <<"scraping">>
              /\ LeadsOf(campaign_id[r]) = <<>>
              /\ summary[r] = NoSummary
              /\ pc[r] = "raised" =>
                    /\ Campaign(r).status = "failed"
                    /\ Campaign(r).error_message = ErrNoBusinesses

C10_Witness ==
    \E r \in Runs :
        /\ pc[r] = "raised"
        /\ exc[r] = ErrNoBusinesses
        /\ Campaign(r).status = "failed"
        /\ Len(leads) > 0

\* ---------------------------------------------------------------- C11
AllStagesEnabled ==
    /\ cfg.enable_validation
    /\ cfg.enable_linkedin_enrichment
    /\ cfg.enable_research
    /\ cfg.enable_personalization

\* C11: with every stage enabled, a run whose scrape found N >= 1 businesses
\* and in which no call raised has returned a summary with status completed
\* and total_leads = N, and its campaign has at least five PipelineRun rows,
\* all of them completed.
C11_FullRunCompletes ==
    \A r \in Runs :
        (/\ AllStagesEnabled
         /\ Started(r) /\ Ended(r)
         /\ businesses[r] >= 1
         /\ failed_stage[r] = "none") =>
            /\ pc[r] = "returned"
            /\ summary[r].status = "completed"
            /\ summary[r].total_leads = businesses[r]
            /\ Campaign(r).status = "completed"
            /\ Len(RunsOf(campaign_id[r])) >= 5
            /\ \A k \in 1..Len(RunsOf(campaign_id[r])) :
                   RunsOf(campaign_id[r])[k].status = "completed"

C11_Witness ==
    \E r \in Runs :
        /\ AllStagesEnabled
        /\ pc[r] = "returned"
        /\ failed_stage[r] = "none"
        /\ businesses[r] = MaxBusinesses
        /\ Len(RunsOf(campaign_id[r])) = 5

\* ---------------------------------------------------------------- C12
C12_StatusStep ==
    status_view' # status_view =>
        /\ UNCHANGED store
        /\ LET id == status_view'.asked
               reply == status_view'.reply
           IN  IF id \in DOMAIN campaigns
               THEN /\ reply.campaign_id = id
                    /\ reply.status = campaigns[id].status
                    /\ reply.total_leads = campaigns[id].total_leads
                    /\ reply.validated_leads = campaigns[id].validated_leads
                    /\ reply.enriched_leads = campaigns[id].enriched_leads
                    /\ reply.personalized_leads = campaigns[id].personalized_leads
                    /\ reply.error_message = campaigns[id].error_message
               ELSE reply = NotFound

\* C12: a get_pipeline_status call changes no campaign, lead or pipeline-run
\* row; asked for an id that has no campaign it returns the not-found dict
\* (it does not raise), and asked for an existing campaign it returns that
\* campaign's current status, counters and error_message.
C12_StatusIsPureRead == [][C12_StatusStep]_vars

\* an id without a campaign has been asked for while another campaign, already
\* failed, has rows in every table
C12_Witness ==
    /\ status_view.asked \in CampaignIds \ DOMAIN campaigns
    /\ status_view.reply = NotFound
    /\ \E id \in DOMAIN campaigns :
           /\ campaigns[id].status = "failed"
           /\ LeadsOf(id) # <<>>
           /\ RunsOf(id) # <<>>

\* ---------------------------------------------------------------- C13
EmptyInput(r) == request[r].business_type = "" \/ request[r].location = ""

\* C13: a run called with an empty business_type or an empty location leaves
\* no campaign, lead or pipeline-run row in the store.
C13_EmptyInputRejected ==
    \A r \in Runs :
        (pc[r] # "absent" /\ EmptyInput(r)) =>
            /\ DOMAIN campaigns = {}
            /\ leads = <<>>
            /\ DOMAIN pipeline_runs = {}

\* ---------------------------------------------------------------- C14
\* the website field makes `website.startswith` raise
Raises(lead) == lead.website = NotAStr

\* what validating the lead on its own gives
ValidatedLead(lead) ==
    LET l == [email_valid |-> lead.email # "" /\ email_pattern_match(lead.email),
              phone_valid |-> validate_phone(lead.phone),
              company_valid |-> validate_company(lead.website, lead.name,
                                                 check_website(lead.website)),
              is_validated |-> TRUE]
             @@ (LET details == validate_company_details(
                                    lead.website, lead.name,
                                    check_website(lead.website))
                 IN  IF details # EmptyDict
                     THEN [company_validation_details |-> details]
                     ELSE EmptyDict)
             @@ lead
    IN  [validation_score |-> validation_score(l)] @@ l

BatchReturned == v_pc \in {"returned", "updated", "summarized"}

\* C14: whatever the order in which the validations were admitted and finished,
\* validate_leads_batch returns as many records as it was given leads, and the
\* record at position i is the validation result of the lead at position i.
C14_BatchOrderPreserved ==
    BatchReturned =>
        /\ Len(out) = Len(batch)
        /\ \A i \in 1..Len(batch) :
              /\ out[i].id = batch[i].id
              /\ ~Raises(batch[i]) => out[i] = ValidatedLead(batch[i])

\* a full batch of three leads with different results, none finished in its turn
C14_Witness ==
    /\ BatchReturned
    /\ Len(batch) = MaxBatch
    /\ \A i \in Tasks : completion[i] # i /\ ~Raises(batch[i])
    /\ out[1].validation_score # out[2].validation_score
    /\ out[2].validation_score # out[3].validation_score

\* ---------------------------------------------------------------- C15
Admitted == {i \in 1..Len(task) : task[i].st \in {"sleeping", "dns", "fetching"}}

PacedOrder == <<"admitted", "delay", "email", "phone", "company">>

\* C15: at most max_workers validations are admitted and unfinished at any
\* time, and each validation's steps come in the order admission, pacing
\* delay, email check, phone check, company check.
C15_BoundedAdmission ==
    /\ Cardinality(Admitted) <= max_workers
    /\ \A i \in 1..Len(task) :
          /\ Len(task[i].events) <= Len(PacedOrder)
          /\ \A k \in 1..Len(task[i].events) : task[i].events[k] = PacedOrder[k]

\* the semaphore is exhausted: one lead waits outside while as many as allowed
\* are inside, one of them past its delay and checks, waiting for its website
C15_Witness ==
    /\ v_pc = "gather"
    /\ max_workers = MaxWorkers
    /\ Cardinality(Admitted) = max_workers
    /\ permits = 0
    /\ \E i \in Tasks : task[i].st = "created"
    /\ \E i \in Tasks : task[i].st = "fetching" /\ task[i].events = PacedOrder

\* ---------------------------------------------------------------- C16
\* C16: when the validation of a lead raises, validate_leads_batch still
\* returns one record per lead; the record of that lead is the lead as given
\* plus email_valid, phone_valid, company_valid all false and a
\* validation_error; every other record is what validating its lead on its own
\* gives; and neither the batch nor the stage's use of it raises.
C16_FailureIsolated ==
    /\ v_pc # "raised"
    /\ BatchReturned =>
          /\ Len(out) = Len(batch)
          /\ \A i \in 1..Len(batch) :
                IF Raises(batch[i])
                THEN /\ DOMAIN out[i] = DOMAIN batch[i] \cup
                            {"email_valid", "phone_valid", "company_valid",
                             "validation_error"}
                     /\ \A f \in DOMAIN batch[i] : out[i][f] = batch[i][f]
                     /\ ~out[i].email_valid
                     /\ ~out[i].phone_valid
                     /\ ~out[i].company_valid
                     /\ out[i].validation_error = ErrAttribute
                ELSE out[i] = ValidatedLead(batch[i])
    /\ v_pc = "updated" =>
          /\ Len(lead_updates) = Len(batch)
          /\ \A i \in 1..Len(batch) :
                /\ lead_updates[i].id = batch[i].id
                /\ lead_updates[i].status = "validated"
                /\ Raises(batch[i]) => ~lead_updates[i].email_valid

\* a full batch whose second lead raised between two leads that validate
C16_Witness ==
    /\ v_pc = "updated"
    /\ Len(batch) = MaxBatch
    /\ Raises(batch[2]) /\ task[2].st = "raised"
    /\ ~Raises(batch[1]) /\ ~Raises(batch[3])
    /\ out[1].validation_score = 3
    /\ out[3].validation_score = 1

\* ---------------------------------------------------------------- C20
\* the task is inside a network or DNS call
InBlockingCall(i) == task[i].st \in {"dns", "fetching"}

\* C20: while one validation is inside a blocking network or DNS call, every
\* other admitted validation that has a step to take can take it: one whose
\* delay is over can go on to its checks, one whose website has answered can
\* resume.
C20_OthersRunDuringBlockingCall ==
    \A i, j \in 1..Len(task) :
        (i # j /\ InBlockingCall(i)) =>
            /\ task[j].st = "sleeping" => ENABLED pacing_delay_over(j)
            /\ task[j].st = "fetching" => ENABLED check_website_returns(j)

\* ---------------------------------------------------------------- C17
AllFlagsTrue(l) ==
    /\ Get(l, "email_valid", FALSE)
    /\ Get(l, "phone_valid", FALSE)
    /\ Get(l, "company_valid", FALSE)

\* C17: the summary of any list validate_leads_batch returned has an
\* overall_quality_score, between 0 and 100, and it is 100 exactly when each
\* lead of the list has its three flags true (score in hundredths: 10000).
C17_QualityScore ==
    v_pc = "summarized" =>
        /\ "overall_quality_score" \in DOMAIN validation_summary
        /\ validation_summary.overall_quality_score \in 0..10000
        /\ validation_summary.overall_quality_score = 10000
               <=> \A i \in 1..Len(out) : AllFlagsTrue(out[i])

\* ---------------------------------------------------------------- C18
\* the status a stage expects of the leads it works on, by the position of its run
PreviousStatus(position) ==
    CASE position \in {"validate", "validate_update"} -> "new"
      [] position \in {"enrich", "enrich_update"} -> "validated"
      [] position \in {"research", "research_update"} -> "enriched"
      [] position \in {"personalize", "personalize_update"} -> "researched"

ReadPositions == {"validate", "enrich", "research", "personalize"}
UpdatePositions == {"validate_update", "enrich_update", "research_update",
                    "personalize_update"}

C18_StageStep ==
    \A r \in Runs :
        /\ (pc[r] \in ReadPositions /\ pc'[r] # pc[r]) =>
              \A k \in 1..Len(stage_leads'[r]) :
                  leads[stage_leads'[r][k]].status = PreviousStatus(pc[r])
        /\ (pc[r] \in UpdatePositions /\ pc'[r] # pc[r]) =>
              /\ Len(leads') = Len(leads)
              /\ \A i \in 1..Len(leads) :
                    leads[i].status # PreviousStatus(pc[r]) => leads'[i] = leads[i]

\* C18: the leads a stage reads all have the status the previous stage leaves
\* (new, validated, enriched, researched for validate, enrich, research,
\* personalize), and the stage's write leaves every lead in another status as
\* it was.
C18_StagesFilterByStatus == [][C18_StageStep]_vars

\* a stage has written its leads while the store held leads in another status
C18_Witness ==
    \E r \in Runs :
        /\ pc[r] = "research_record"
        /\ \E i \in 1..Len(leads) :
              leads[i].campaign_id = campaign_id[r] /\ leads[i].status = "researched"
        /\ \E i \in 1..Len(leads) : leads[i].status \in {"new", "personalized"}

\* ---------------------------------------------------------------- C19
\* C19: every run ends, with its campaign completed or failed.
C19_RunTerminates ==
    <>(\A r \in Runs :
          pc[r] # "absent" =>
              /\ Started(r)
              /\ Ended(r)
              /\ Campaign(r).status \in Terminal)

\* ---------------------------------------------------------------- C21
\* where run_complete_pipeline goes on after the stage read at the position
NextAfter(position) ==
    CASE position = "validate" -> AfterValidate
      [] position = "enrich" -> AfterEnrich
      [] position = "research" -> AfterResearch
      [] position = "personalize" -> "export"

NothingToProcess(r) ==
    get_leads_by_campaign(leads, campaign_id[r], PreviousStatus(pc[r])) = <<>>

C21_EmptyStageStep ==
    \A r \in Runs :
        (pc[r] \in ReadPositions /\ pc'[r] # pc[r] /\ NothingToProcess(r)) =>
            /\ UNCHANGED store
            /\ exc'[r] = NoError
            /\ failed_stage'[r] = failed_stage[r]
            /\ pc'[r] = NextAfter(pc[r])

\* C21: an enabled stage that finds no lead in the status it works on writes no
\* PipelineRun row, changes no lead and no campaign, raises nothing, and the
\* run goes on with the next enabled stage (or the export).
C21_EmptyStageIsNoOp == [][C21_EmptyStageStep]_vars

\* a run came back completed after its research stage had been called and had
\* found nothing to do
C21_Witness ==
    \E r \in Runs :
        /\ pc[r] = "returned"
        /\ cfg.enable_research
        /\ Calls(r, "research") = 1
        /\ \A k \in 1..Len(attempted[r]) : attempted[r][k] # "research"
        /\ \A k \in 1..Len(RunsOf(campaign_id[r])) :
               RunsOf(campaign_id[r])[k].stage # "research"

\* ---------------------------------------------------------------- C22
\* the number of true flags among email_valid, phone_valid, company_valid
TrueFlags(l) ==
    (IF Get(l, "email_valid", FALSE) THEN 1 ELSE 0)
    + (IF Get(l, "phone_valid", FALSE) THEN 1 ELSE 0)
    + (IF Get(l, "company_valid", FALSE) THEN 1 ELSE 0)

\* C22: every record validate_leads_batch returns carries is_validated = true
\* and a validation_score equal to the number of its true flags, the records
\* of leads whose validation raised included.
C22_EveryRecordScored ==
    BatchReturned =>
        \A i \in 1..Len(out) :
            /\ "is_validated" \in DOMAIN out[i]
            /\ out[i].is_validated
            /\ "validation_score" \in DOMAIN out[i]
            /\ out[i].validation_score = TrueFlags(out[i])
            /\ out[i].validation_score \in 0..3

\* ---------------------------------------------------------------- C23
\* C23: a DNS lookup is started for a lead's email only once the address has
\* passed the format check, and a lead whose address fails that check comes
\* back with email_valid = false without any lookup.
C23_NoLookupForMalformedEmail ==
    /\ \A i \in 1..Len(task) :
          task[i].lookups > 0 =>
              /\ email_pattern_match(batch[i].email)
              /\ \E k \in 1..Len(task[i].events) : task[i].events[k] = "email"
    /\ BatchReturned =>
          \A i \in 1..Len(out) :
              ~email_pattern_match(batch[i].email) =>
                  /\ ~out[i].email_valid
                  /\ task[i].lookups = 0

\* a batch has come back in which one address was looked up and a malformed
\* one was not
C23_Witness ==
    /\ BatchReturned
    /\ \E i, j \in 1..Len(task) :
          /\ batch[i].email = "not-an-email"
          /\ task[i].lookups = 0 /\ ~out[i].email_valid
          /\ task[j].lookups = 1 /\ out[j].email_valid

\* ---------------------------------------------------------------- C24
\* the site of the lead is fetched and answers with a status in [200, 400)
WebsiteAnswers(lead) ==
    /\ lead.website # ""
    /\ "status_code" \in DOMAIN session_get(lead.website)
    /\ session_get(lead.website).status_code \in 200..399

\* the name of the lead has more than 2 characters once trimmed
HasName(lead) == Len(strip(lead.name)) > 2

\* C24: for every lead whose validation returns, company_valid is true exactly
\* when the lead's website is fetched and answers with a status in [200, 400),
\* or the website is absent or its fetch fails and the lead's name has more
\* than 2 characters after trimming; and when the name stands in for a website
\* that failed, company_validation_details holds what the fetch said (the
\* error, or the status code outside [200, 400)) next to has_company_name = TRUE.
C24_CompanyValid ==
    BatchReturned =>
        \A i \in 1..Len(out) :
            ~Raises(batch[i]) =>
                /\ out[i].company_valid
                       <=> \/ WebsiteAnswers(batch[i])
                           \/ /\ batch[i].website = "" \/ ~WebsiteAnswers(batch[i])
                              /\ HasName(batch[i])
                /\ (batch[i].website # "" /\ ~WebsiteAnswers(batch[i])
                        /\ HasName(batch[i])) =>
                       /\ out[i].company_valid
                       /\ "company_validation_details" \in DOMAIN out[i]
                       /\ LET details == out[i].company_validation_details
                          IN  /\ details.has_company_name = TRUE
                              /\ details.company_name_length
                                     = Len(strip(batch[i].name))
                              /\ \/ "error" \in DOMAIN details
                                 \/ /\ "status_code" \in DOMAIN details
                                    /\ details.status_code \notin 200..399

\* a batch returned with an unreachable site behind a usable name, accepted with
\* both notes in its details, next to a lead without site whose name is too
\* short once trimmed, refused, and a lead accepted for its site alone
C24_Witness ==
    /\ BatchReturned
    /\ \E i, j, k \in 1..Len(out) :
          /\ batch[i].website = "gone.example" /\ batch[i].name = Gone
          /\ out[i].company_valid
          /\ out[i].company_validation_details.error = "Connection failed"
          /\ out[i].company_validation_details.has_company_name
          /\ batch[j].website = "" /\ batch[j].name = Padded
          /\ ~out[j].company_valid
          /\ batch[k].website = "edge.example" /\ batch[k].name = <<>>
          /\ out[k].company_valid

\* ---------------------------------------------------------------- C25
Counters == {"total_leads", "validated_leads", "enriched_leads", "personalized_leads"}

C25_CounterStep ==
    \A c \in DOMAIN campaigns :
        /\ c \in DOMAIN campaigns'
        /\ \A f \in Counters : campaigns'[c][f] >= campaigns[c][f]

\* C25: no step of a run lowers total_leads, validated_leads, enriched_leads
\* or personalized_leads of a campaign: each counter is monotonically
\* non-decreasing within the run.
C25_CountersNeverDecrease == [][C25_CounterStep]_vars

\* a campaign whose run has ended with all four counters raised, after the
\* writes of the terminal status that follow them
C25_Witness ==
    \E r \in Runs :
        /\ pc[r] = "returned"
        /\ campaigns[campaign_id[r]].total_leads = MaxBusinesses
        /\ campaigns[campaign_id[r]].validated_leads >= 1
        /\ campaigns[campaign_id[r]].enriched_leads >= 1
        /\ campaigns[campaign_id[r]].personalized_leads >= 1

\* ---------------------------------------------------------------- C26
\* C26: a campaign's completed_at is unset while its status is pending or
\* running and set once the status is terminal, completed or failed alike.
C26_CompletedAtOnTerminal ==
    \A c \in DOMAIN campaigns :
        campaigns[c].completed_at <=> campaigns[c].status \in Terminal

\* ---------------------------------------------------------------- C27
C27_ErrorIffFailed ==
    \A c \in DOMAIN campaigns :
        campaigns[c].error_message # NoError <=> campaigns[c].status = "failed"

C27_ErrorStep ==
    \A c \in DOMAIN campaigns :
        campaigns'[c].error_message # campaigns[c].error_message =>
            /\ campaigns[c].error_message = NoError
            /\ campaigns[c].status # "failed"
            /\ campaigns'[c].status = "failed"

\* C27: in every reachable state a campaign's error_message is set if and only
\* if its status is failed; the only step that writes it is the one that makes
\* the campaign failed, and no later step clears or overwrites it.
C27_ErrorMessageOnlyOnFailed == []C27_ErrorIffFailed /\ [][C27_ErrorStep]_vars

\* one run has failed and left its message on its campaign, and another run
\* has completed with no message on its own
C27_Witness ==
    \E r, q \in Runs :
        /\ Started(r) /\ Started(q)
        /\ pc[r] = "raised" /\ Campaign(r).status = "failed"
        /\ Campaign(r).error_message = exc[r] /\ exc[r] # NoError
        /\ pc[q] = "returned" /\ Campaign(q).status = "completed"
        /\ Campaign(q).error_message = NoError

\* ---------------------------------------------------------------- C28
\* C28: whenever validate_leads_batch has created its semaphore, the size it
\* was created with lies between 1 and 20.
C28_WorkerLimitInRange ==
    v_pc = "gather" =>
        max_workers \in MinValidationWorkers..MaxValidationWorkers

\* ---------------------------------------------------------------- C29
\* the stages named by a campaign's PipelineRun rows, in row order
RunStages(cid) == [i \in 1..Len(RunsOf(cid)) |-> RunsOf(cid)[i].stage]

IsPrefix(s, t) == Len(s) <= Len(t) /\ SubSeq(t, 1, Len(s)) = s

\* the attempts of the run that are over: all of them once the run has ended,
\* all but the one in progress before
C29_RowsFollowAttempts ==
    \A r \in Runs :
        Started(r) =>
            IF Ended(r)
            THEN RunStages(campaign_id[r]) = attempted[r]
            ELSE /\ IsPrefix(RunStages(campaign_id[r]), attempted[r])
                 /\ Len(attempted[r]) <= Len(RunsOf(campaign_id[r])) + 1

C29_AppendStep ==
    \A c \in DOMAIN pipeline_runs :
        /\ c \in DOMAIN pipeline_runs'
        /\ IsPrefix(pipeline_runs[c], pipeline_runs'[c])
        /\ Len(pipeline_runs'[c]) <= Len(pipeline_runs[c]) + 1

\* C29: no step of a run changes or removes a PipelineRun row that is there,
\* a step adds at most one row, and the rows of a campaign name the stages the
\* run attempted, one row per attempt (the failing one and the export
\* included) and in the order the stages executed.
C29_RunLogAppendOnlyOrdered ==
    []C29_RowsFollowAttempts /\ [][C29_AppendStep]_vars

\* ---------------------------------------------------------------- C30
\* C30: in every reachable state, a lead has a linkedin_profile only if its
\* status is enriched or later, research_data only if researched or later, a
\* personalized_message only if personalized, and while its status is new its
\* email_valid, phone_valid and company_valid are all false.
C30_PayloadsAgreeWithStatus ==
    \A i \in 1..Len(leads) :
        /\ leads[i].linkedin_profile # NoPayload =>
               StatusRank(leads[i].status) >= StatusRank("enriched")
        /\ leads[i].research_data # NoPayload =>
               StatusRank(leads[i].status) >= StatusRank("researched")
        /\ leads[i].personalized_message # NoPayload =>
               leads[i].status = "personalized"
        /\ leads[i].status = "new" =>
               /\ ~leads[i].email_valid
               /\ ~leads[i].phone_valid
               /\ ~leads[i].company_valid

\* a lead that went through every stage and carries the three payloads and a
\* true flag, next to a lead just inserted by a later run
C30_Witness ==
    \E i, k \in 1..Len(leads) :
        /\ leads[i].status = "personalized"
        /\ leads[i].linkedin_profile # NoPayload
        /\ leads[i].research_data # NoPayload
        /\ leads[i].personalized_message # NoPayload
        /\ leads[i].email_valid
        /\ leads[k].status = "new"
        /\ leads[k].linkedin_profile = NoPayload
        /\ ~leads[k].email_valid

\* ---------------------------------------------------------------- C31
\* the rows once every update of the batch is applied
AfterBatch == update_leads_batch(txn.before, txn.cid, txn.updates)

\* C31: the updates of one update_leads_batch call reach the store together:
\* while the call is under way, and after it has failed part-way, the rows are
\* the ones it found; once it has returned they are those rows with every
\* update of the batch applied; and what another connection reads is one or
\* the other, never a part of the batch.
C31_BatchIsAtomic ==
    /\ db_pc = "in_txn" => leads = txn.before
    /\ db_result = "rolled_back" => leads = txn.before
    /\ db_result = "committed" => leads = AfterBatch
    /\ read_view # NoRead =>
          \/ read_view.rows = LeadRows(txn.before, read_view.cid)
          \/ read_view.rows = LeadRows(AfterBatch, read_view.cid)

\* a batch of two updates for two leads of the campaign: a reader saw the old
\* rows after the first UPDATE was executed, and the call then failed and left
\* both leads as they were
C31_Witness ==
    /\ db_result = "rolled_back"
    /\ Len(txn.updates) = 2
    /\ txn.updates[1].id # txn.updates[2].id
    /\ \A k \in 1..2 : /\ txn.updates[k].id <= Len(leads)
                       /\ leads[txn.updates[k].id].campaign_id = txn.cid
                       /\ leads[txn.updates[k].id].status = "new"
    /\ read_view.in_txn
    /\ read_view.cid = txn.cid
    /\ Len(read_view.rows) >= 2

\* ---------------------------------------------------------------- C32
\* C32: every lead row names a campaign that has a row in campaigns, whatever
\* store operations were called and in whatever order; in particular
\* insert_leads does not store leads for a campaign id that has no row.
C32_LeadsHaveCampaign ==
    \A i \in 1..Len(leads) :
        leads[i] # DeletedLead => leads[i].campaign_id \in DOMAIN campaigns

\* ---------------------------------------------------------------- C34
\* the status of the last stage in the longest enabled prefix of validate,
\* enrich, research, personalize
PrefixStatus ==
    IF ~cfg.enable_validation THEN "new"
    ELSE IF ~cfg.enable_linkedin_enrichment THEN "validated"
    ELSE IF ~cfg.enable_research THEN "enriched"
    ELSE IF ~cfg.enable_personalization THEN "researched"
    ELSE "personalized"

\* C34: when a run has completed, every lead of its campaign has the status of
\* the last stage in the longest enabled prefix of validate, enrich, research,
\* personalize (new when validation is disabled), whatever its validation
\* flags: a stage enabled after a disabled one advances no lead.
C34_StatusOfEnabledPrefix ==
    \A r \in Runs :
        (Started(r) /\ pc[r] = "returned" /\ Campaign(r).status = "completed") =>
            \A i \in 1..Len(leads) :
                leads[i].campaign_id = campaign_id[r] =>
                    leads[i].status = PrefixStatus

\* a completed run with enrichment disabled and research and personalization
\* enabled: its two leads stopped at validated, one with a valid email and one
\* without
C34_Witness ==
    \E r \in Runs :
        /\ Started(r) /\ pc[r] = "returned" /\ Campaign(r).status = "completed"
        /\ cfg.enable_validation /\ ~cfg.enable_linkedin_enrichment
        /\ cfg.enable_research /\ cfg.enable_personalization
        /\ \E i, j \in 1..Len(leads) :
              /\ leads[i].campaign_id = campaign_id[r]
              /\ leads[j].campaign_id = campaign_id[r]
              /\ leads[i].status = "validated" /\ leads[i].email_valid
              /\ leads[j].status = "validated" /\ ~leads[j].email_valid

\* ---------------------------------------------------------------- C35
\* the rows of one campaign: its campaigns row, its leads with their ids, its
\* pipeline_runs rows
RowsOf(cs, ls, prs, cid) ==
    [campaign |-> IF cid \in DOMAIN cs THEN <<cs[cid]>> ELSE <<>>,
     leads |-> {<<i, ls[i]>> : i \in {j \in 1..Len(ls) : ls[j].campaign_id = cid}},
     runs |-> IF cid \in DOMAIN prs THEN prs[cid] ELSE <<>>]

\* the campaigns a step works for: the one of the store call in hand and
\* those of the runs that move
ActingCampaigns ==
    {db_call'.cid} \cup {campaign_id'[r] : r \in {q \in Runs : pc'[q] # pc[q]}}

\* C35: a step taken for campaign A (a store call of a run, or a statement of
\* its update_leads_batch, also one whose update list names a lead of B)
\* leaves the Campaign, Lead and PipelineRun rows of every other campaign B
\* as they were; cleanup_old_campaigns is no part of a run
C35_OtherCampaignsUntouched ==
    [][db_call'.op # "cleanup_old_campaigns" =>
        \A b \in StoreCampaignIds \ ActingCampaigns :
            RowsOf(campaigns', leads', pipeline_runs', b)
                = RowsOf(campaigns, leads, pipeline_runs, b)]_vars

\* an update_leads_batch for one campaign whose list named a lead of another
\* campaign has committed, and that lead is still 'new', while a lead of the
\* campaign itself was written
C35_Witness ==
    /\ db_call.op = "update_leads_batch"
    /\ db_result = "committed"
    /\ \E k \in 1..Len(txn.updates) : \E i \in 1..Len(leads) :
        /\ txn.updates[k].id = i
        /\ leads[i].campaign_id \in DOMAIN campaigns \ {txn.cid}
        /\ leads[i].status = "new"
    /\ \E i \in 1..Len(leads) :
        /\ leads[i].campaign_id = txn.cid
        /\ leads[i].status = "validated"

\* ---------------------------------------------------------------- C36
\* the statuses a lead has once the validation has written it
ValidatedOrLater == {"validated", "enriched", "researched", "personalized"}

Completed(r) ==
    Started(r) /\ pc[r] = "returned" /\ Campaign(r).status = "completed"

TotalAgrees(r) ==
    /\ Campaign(r).total_leads = Len(LeadsOf(campaign_id[r]))
    /\ summary[r].total_leads = Len(LeadsOf(campaign_id[r]))

ValidatedAgrees(r) ==
    LET n == CountSeq(LeadsOf(campaign_id[r]),
                      LAMBDA l : l.status \in ValidatedOrLater)
    IN  Campaign(r).validated_leads = n /\ summary[r].validated_leads = n

EnrichedAgrees(r) ==
    LET n == CountSeq(LeadsOf(campaign_id[r]),
                      LAMBDA l : l.linkedin_profile # NoPayload)
    IN  Campaign(r).enriched_leads = n /\ summary[r].enriched_leads = n

PersonalizedAgrees(r) ==
    Campaign(r).personalized_leads =
        CountSeq(LeadsOf(campaign_id[r]),
                 LAMBDA l : l.personalized_message # NoPayload)

\* C36: at the end of a completed run the counters of the campaign and the
\* returned summary are the counts of the lead rows: total_leads all rows,
\* validated_leads the rows validated or later, enriched_leads the rows with
\* a linkedin_profile, personalized_leads the rows with a personalized_message
C36_CountersAgreeWithRows ==
    \A r \in Runs :
        Completed(r) =>
            /\ TotalAgrees(r)
            /\ ValidatedAgrees(r)
            /\ EnrichedAgrees(r)
            /\ PersonalizedAgrees(r)

\* ---------------------------------------------------------------- C37
\* the generate request a step accepts, if it accepts one
Accepted == {j \in 1..Len(job') : j > Len(job)}

\* the assignment of generate_leads meets no entry
NoOverwrite ==
    \A j \in Accepted : job'[j].task_id \notin DOMAIN active_tasks

\* the id was given to no earlier request
OwnTaskId ==
    \A j \in Accepted : \A k \in 1..Len(job) : job'[j].task_id # job[k].task_id

\* C37: creating a task never overwrites an entry of the registry, and each
\* generate request gets a task id of its own, whatever generate, delete and
\* background steps came before
C37_TaskIdsFresh == [][NoOverwrite /\ OwnTaskId]_vars

\* ---------------------------------------------------------------- C33
\* the tasks deleted while their pipeline was running
DeletedRunning == {d.task_id : d \in {e \in deleted : e.status = "running"}}

\* a delete_task step changes nothing of the runs and nothing of the store
DeleteLeavesRuns ==
    DOMAIN active_tasks' # DOMAIN active_tasks /\ job' = job =>
        UNCHANGED <<pc, campaign_id, campaigns, leads, pipeline_runs, exc, summary>>

\* C33: deleting a task while its pipeline runs aborts nothing (the step
\* leaves the run and its campaign as they are, and the run's later steps do
\* not depend on the registry), and the id of a task deleted while running is
\* not in the registry again
C33_DeleteDoesNotAbort ==
    /\ [](DeletedRunning \cap DOMAIN active_tasks = {})
    /\ [][DeleteLeavesRuns]_vars

\* ---------------------------------------------------------------- C38
\* the steps a task's status may take
TaskStatusSteps ==
    {<<"pending", "running">>, <<"running", "completed">>, <<"running", "failed">>}

\* the entries a step leaves in the registry keep their status or take one
\* of the steps; a new entry is pending
StatusStep ==
    \A id \in DOMAIN active_tasks' :
        IF id \in DOMAIN active_tasks
        THEN \/ active_tasks'[id].status = active_tasks[id].status
             \/ <<active_tasks[id].status, active_tasks'[id].status>> \in TaskStatusSteps
        ELSE active_tasks'[id].status = "pending"

\* no two generate requests were given the same task id
TaskIdsDistinct ==
    \A j, k \in 1..Len(job) : j # k => job[j].task_id # job[k].task_id

\* C38: the status of a task in the registry moves only pending -> running ->
\* completed or pending -> running -> failed, and completed and failed are
\* left by no step
C38_TaskStatusSteps == [][StatusStep]_vars

\* ---------------------------------------------------------------- C39
\* the run slot of the background task queued with the entry, 0 before it
\* has called the orchestrator
RunOf(id) == job[active_tasks[id].by].run

TaskCompletedAgrees(id) ==
    /\ RunOf(id) # 0
    /\ Started(RunOf(id))
    /\ Campaign(RunOf(id)).status = "completed"
    /\ active_tasks[id].results = summary[RunOf(id)]
    /\ active_tasks[id].results.campaign_id = campaign_id[RunOf(id)]

TaskFailedAgrees(id) ==
    /\ RunOf(id) # 0
    /\ pc[RunOf(id)] = "raised"
    /\ Started(RunOf(id)) => Campaign(RunOf(id)).status \notin {"running", "completed"}

\* C39: a task is completed only if the campaign its run created is completed
\* and its results carry that campaign's id; a task is failed only if its run
\* raised, and then the run left no campaign running or completed
C39_TaskAgreesWithCampaign ==
    \A id \in DOMAIN active_tasks :
        /\ active_tasks[id].status = "completed" => TaskCompletedAgrees(id)
        /\ active_tasks[id].status = "failed" => TaskFailedAgrees(id)

\* ---------------------------------------------------------------- C40
\* validate_leads_batch has handed its list back
BatchOver == v_pc \notin {"called", "gather"}

\* a coroutine that has not entered the semaphore yet
Waiting(i) == v_pc = "gather" /\ i \in Tasks /\ task[i].st = "created"

\* a coroutine ends by an exception in this step
RaisesNow(i) ==
    /\ i \in DOMAIN task /\ i \in DOMAIN task'
    /\ task[i].st # "raised" /\ task'[i].st = "raised"

\* C40: with max_workers >= 1 and every individual check coming back,
\* validate_leads_batch returns for every batch; every coroutine waiting for
\* the semaphore is admitted; a coroutine that raises gives its permit back;
\* and when the batch has returned all max_workers permits are free
C40_BatchTerminates ==
    /\ max_workers >= 1 => <>BatchOver
    /\ \A i \in 1..MaxBatch :
        (max_workers >= 1 /\ Waiting(i)) ~> (i \in DOMAIN task /\ task[i].st # "created")
    /\ [][\A i \in 1..MaxBatch : RaisesNow(i) => permits' = permits + 1]_vars
    /\ [](max_workers >= 1 /\ BatchOver /\ batch # <<>> => permits = max_workers)

\* a batch larger than the semaphore has returned, one of its coroutines
\* raised, and the permits are all back
C40_Witness ==
    /\ v_pc = "returned"
    /\ max_workers >= 1
    /\ Len(batch) > max_workers
    /\ \E i \in Tasks : task[i].st = "raised"
    /\ \E i \in Tasks : task[i].st = "done"
    /\ permits = max_workers

====
